---- MODULE Spec2Model ----
(***************************************************************************)
(* Table reservation store of Finals-Interprog.cpp: the validation         *)
(* functions and ReservationManager (tables, reservations,                 *)
(* nextReservationId) with reserveTable, cancelReservation and             *)
(* updateReservation.                                                      *)
(*                                                                         *)
(* std::string values that the code inspects character by character (ids,  *)
(* phone numbers, dates, times) are sequences of one-character strings;    *)
(* customer names are only compared for equality and are TLA+ strings.     *)
(* Each handler is an operator from the current store and its arguments to *)
(* an outcome record: the exception message it throws ("" when it returns  *)
(* normally), its return value and the store it leaves behind.             *)
(*                                                                         *)
(* Three specifications are given.  Spec drives the store through its      *)
(* three handlers with arbitrary arguments.  Session is the process of     *)
(* main(): role selection, the login prompts, the account maps and the     *)
(* role menus that call the handlers, up to the Exit choice or an uncaught *)
(* exception, with the lines appended to logs.txt.  Validation applies a   *)
(* validation function to one input.  Spec and Validation observe the      *)
(* store and the function only: for them the log file is a sink that       *)
(* accepts or refuses a write, and its content stays as at the start.      *)
(***************************************************************************)
EXTENDS Integers, Sequences, FiniteSets, TLC

VARIABLES tables, reservations, nextReservationId,
          pc, role, username, customerAccounts, receptionistAccounts, log,
          call, verdict

\* ReservationManager's fields.
storeVars == <<tables, reservations, nextReservationId>>

\* Where main() is, the User object of the running menu, the account maps,
\* the lines of logs.txt.
sessionVars == <<pc, role, username, customerAccounts, receptionistAccounts, log>>

\* A validation function's arguments and what it returned.
validationVars == <<call, verdict>>

vars == <<storeVars, sessionVars, validationVars>>

(* ------------------------------ bounds -------------------------------- *)

\* Largest number the id counter may hand out (the int counter of the code
\* is unbounded for every practical run).
MaxId == 3

\* Largest number of lines logs.txt may hold: a step that would append one
\* more is not taken.
MaxLog == 4

(* ----------------------------- constants ------------------------------ *)

CURRENT_DATE == <<"2","0","2","5","-","0","5","-","1","9">>
CURRENT_HOUR == 22
CURRENT_MINUTE == 19

\* tables(10, true)
NumTables == 10

\* The "leave unchanged" sentinel of the string arguments of updateReservation.
Zero == <<"0">>

(* --------------------------- string helpers --------------------------- *)

Digits == {"0","1","2","3","4","5","6","7","8","9"}

IsDigit(c) == c \in Digits

DigitVal(c) ==
  CASE c = "0" -> 0 [] c = "1" -> 1 [] c = "2" -> 2 [] c = "3" -> 3
    [] c = "4" -> 4 [] c = "5" -> 5 [] c = "6" -> 6 [] c = "7" -> 7
    [] c = "8" -> 8 [] c = "9" -> 9

DigitChar(d) ==
  CASE d = 0 -> "0" [] d = 1 -> "1" [] d = 2 -> "2" [] d = 3 -> "3"
    [] d = 4 -> "4" [] d = 5 -> "5" [] d = 6 -> "6" [] d = 7 -> "7"
    [] d = 8 -> "8" [] d = 9 -> "9"

\* The character codes std::string's operator< compares.
CharCode(c) ==
  CASE c = " " -> 32 [] c = "-" -> 45 [] c = ":" -> 58
    [] c = "A" -> 65 [] c = "D" -> 68 [] c = "I" -> 73
    [] IsDigit(c) -> 48 + DigitVal(c)

\* std::string operator<: lexicographic, a proper prefix is smaller.
RECURSIVE StrLess(_, _)
StrLess(a, b) ==
  IF b = <<>> THEN FALSE
  ELSE IF a = <<>> THEN TRUE
  ELSE IF CharCode(Head(a)) # CharCode(Head(b))
       THEN CharCode(Head(a)) < CharCode(Head(b))
       ELSE StrLess(Tail(a), Tail(b))

\* The value sscanf's %d reads from a run of digits.
RECURSIVE ParseDigits(_)
ParseDigits(s) ==
  IF s = <<>> THEN 0
  ELSE 10 * ParseDigits(SubSeq(s, 1, Len(s) - 1)) + DigitVal(s[Len(s)])

\* std::to_string of a non-negative int.
RECURSIVE to_string(_)
to_string(n) ==
  IF n < 10 THEN <<DigitChar(n)>>
  ELSE Append(to_string(n \div 10), DigitChar(n % 10))

AllDigits(s) == \A i \in 1..Len(s) : IsDigit(s[i])

(* ----------------------------- validation ----------------------------- *)

\* Mutant: the dashes are not asked for.
validatePhoneNumberDashesOptional(phone) ==
  \A i \in 1..Len(phone) : phone[i] = "-" \/ IsDigit(phone[i])

\* regex_match(phone, "\d{3}-\d{3}-\d{4}")
validatePhoneNumber(phone) ==
  /\ Len(phone) = 12
  /\ \A i \in 1..12 : IF i \in {4, 8} THEN phone[i] = "-" ELSE IsDigit(phone[i])

\* Mutant: the reference date itself is rejected as past.
validateDateReferenceRejected(date) ==
  /\ Len(date) = 10
  /\ \A i \in 1..10 : IF i \in {5, 8} THEN date[i] = "-" ELSE IsDigit(date[i])
  /\ LET month == ParseDigits(SubSeq(date, 6, 7))
         day   == ParseDigits(SubSeq(date, 9, 10))
     IN  /\ ~(month < 1 \/ month > 12 \/ day < 1 \/ day > 31)
         /\ ~(StrLess(date, CURRENT_DATE) \/ date = CURRENT_DATE)

validateDate(date) ==
  /\ Len(date) = 10
  /\ \A i \in 1..10 : IF i \in {5, 8} THEN date[i] = "-" ELSE IsDigit(date[i])
  /\ LET month == ParseDigits(SubSeq(date, 6, 7))
         day   == ParseDigits(SubSeq(date, 9, 10))
     IN  /\ ~(month < 1 \/ month > 12 \/ day < 1 \/ day > 31)
         /\ ~StrLess(date, CURRENT_DATE)

\* Mutant: on the reference date a time equal to the reference time passes.
validateTimeAtReferenceAccepted(time, date) ==
  /\ Len(time) = 5
  /\ \A i \in 1..5 : IF i = 3 THEN time[i] = ":" ELSE IsDigit(time[i])
  /\ LET hour   == ParseDigits(SubSeq(time, 1, 2))
         minute == ParseDigits(SubSeq(time, 4, 5))
     IN  /\ ~(hour < 0 \/ hour > 23 \/ minute < 0 \/ minute > 59)
         /\ (date = CURRENT_DATE =>
               ~(hour < CURRENT_HOUR
                 \/ (hour = CURRENT_HOUR /\ minute < CURRENT_MINUTE)))

\* regex_match(time, "\d{2}:\d{2}"), the range check of the two numbers, and
\* the comparison with the reference time on the reference date.
validateTime(time, date) ==
  /\ Len(time) = 5
  /\ \A i \in 1..5 : IF i = 3 THEN time[i] = ":" ELSE IsDigit(time[i])
  /\ LET hour   == ParseDigits(SubSeq(time, 1, 2))
         minute == ParseDigits(SubSeq(time, 4, 5))
     IN  /\ ~(hour < 0 \/ hour > 23 \/ minute < 0 \/ minute > 59)
         /\ (date = CURRENT_DATE =>
               ~(hour < CURRENT_HOUR
                 \/ (hour = CURRENT_HOUR /\ minute <= CURRENT_MINUTE)))

validatePartySize(size) == size >= 1

\* regex_match(id, "ID \d+A")
validateReservationId(id) ==
  /\ Len(id) >= 5
  /\ id[1] = "I" /\ id[2] = "D" /\ id[3] = " "
  /\ id[Len(id)] = "A"
  /\ AllDigits(SubSeq(id, 4, Len(id) - 1))

(* ------------------------------- store -------------------------------- *)

Reservation(id, name, phone, size, date, time, table) ==
  [id |-> id, customerName |-> name, phoneNumber |-> phone, partySize |-> size,
   date |-> date, time |-> time, tableNumber |-> table]

\* An account map without entries.
NoAccounts == [u \in {} |-> ""]

\* No validation function is being applied.
NoCall == [fn |-> "none"]

\* The program at the first role-selection prompt: ten available tables, no
\* reservation, no account.
ProgramStart ==
  /\ tables = [i \in 0..(NumTables - 1) |-> TRUE]
  /\ reservations = <<>>
  /\ nextReservationId = 1
  /\ pc = "RoleSelection"
  /\ role = ""
  /\ username = ""
  /\ customerAccounts = NoAccounts
  /\ receptionistAccounts = NoAccounts
  /\ log = <<>>

Init ==
  /\ ProgramStart
  /\ call = NoCall
  /\ verdict = <<>>

\* What a handler leaves behind: the message of the exception it throws ("" when
\* it returns normally), its return value, and the store.
Outcome(err, ret, t, rs, n) ==
  [err |-> err, ret |-> ret, tables |-> t, reservations |-> rs,
   nextReservationId |-> n]

\* A throw before anything was written.
Throw(msg) == Outcome(msg, -1, tables, reservations, nextReservationId)

LogFileError == "Unable to open log file."

\* logReservationAction -> writeLogToFile at the end of a handler: the line is
\* appended when logs.txt opens (logOk), and the handler throws otherwise,
\* with the store already written.
writeLogToFile(logOk, ret, t, rs, n) ==
  IF logOk THEN Outcome("", ret, t, rs, n)
  ELSE Outcome(LogFileError, -1, t, rs, n)

\* Mutant: the excluded id is not looked at.
reservationIdExistsIgnoresExclude(id, excludeId) ==
  \E i \in 1..Len(reservations) : reservations[i].id = id

reservationIdExists(id, excludeId) ==
  \E i \in 1..Len(reservations) :
     reservations[i].id = id /\ reservations[i].id # excludeId

hasReservations(customerName) ==
  \E i \in 1..Len(reservations) : reservations[i].customerName = customerName

\* "ID " + to_string(n) + "A"
MakeId(n) == <<"I", "D", " ">> \o to_string(n) \o <<"A">>

\* Mutant: the first formatted id is used without the collision check.
FreshIdNumberNoRetry(n) == n

\* Mutant: the lowest number whose id is not active is used, whatever the
\* counter.
FreshIdNumberLowestFree(n) ==
  CHOOSE k \in 1..(Len(reservations) + 1) :
     /\ ~reservationIdExists(MakeId(k), <<>>)
     /\ \A j \in 1..(k - 1) : reservationIdExists(MakeId(j), <<>>)

\* do { id = MakeId(nextReservationId++) } while (reservationIdExists(id)):
\* the counter value the loop ends up using.
RECURSIVE FreshIdNumber(_)
FreshIdNumber(n) ==
  IF reservationIdExists(MakeId(n), <<>>) THEN FreshIdNumber(n + 1) ELSE n

PhoneError == "Invalid phone number format. Use XXX-XXX-XXXX."
PartySizeError == "Party size must be at least 1."
DateError == "Invalid date format (use YYYY-MM-DD) or date is in the past."
TimeError == "Invalid time format (use HH:MM) or time is in the past for today."
TableIndexOutOfRange == "Invalid table number. Must be between 1 and 10."
TableUnavailable == "Selected table is already booked."

\* Mutant: the requested table is taken without the check that it is free.
reserveTableNoAvailabilityCheck(customerName, phoneNumber, partySize, date, time, tableNumber, logOk) ==
  IF ~validatePhoneNumber(phoneNumber) THEN Throw(PhoneError)
  ELSE IF ~validatePartySize(partySize) THEN Throw(PartySizeError)
  ELSE IF ~validateDate(date) THEN Throw(DateError)
  ELSE IF ~validateTime(time, date) THEN Throw(TimeError)
  ELSE IF tableNumber < 0 \/ tableNumber >= NumTables THEN Throw(TableIndexOutOfRange)
  ELSE LET k == FreshIdNumber(nextReservationId)
           r == Reservation(MakeId(k), customerName, phoneNumber, partySize,
                            date, time, tableNumber)
       IN  writeLogToFile(logOk, tableNumber,
                          [tables EXCEPT ![tableNumber] = FALSE],
                          Append(reservations, r), k + 1)

reserveTable(customerName, phoneNumber, partySize, date, time, tableNumber, logOk) ==
  IF ~validatePhoneNumber(phoneNumber) THEN Throw(PhoneError)
  ELSE IF ~validatePartySize(partySize) THEN Throw(PartySizeError)
  ELSE IF ~validateDate(date) THEN Throw(DateError)
  ELSE IF ~validateTime(time, date) THEN Throw(TimeError)
  ELSE IF tableNumber < 0 \/ tableNumber >= NumTables THEN Throw(TableIndexOutOfRange)
  ELSE IF ~tables[tableNumber] THEN Throw(TableUnavailable)
  ELSE LET k == FreshIdNumber(nextReservationId)
           r == Reservation(MakeId(k), customerName, phoneNumber, partySize,
                            date, time, tableNumber)
       IN  writeLogToFile(logOk, tableNumber,
                          [tables EXCEPT ![tableNumber] = FALSE],
                          Append(reservations, r), k + 1)

IdFormatError == "Invalid reservation ID format. Use 'ID <number>A', e.g., ID 1A."
NotFoundCancel == "No reservation to cancel."
NotFoundUpdate == "No reservation to update."
NewIdFormatError == "Invalid new reservation ID format. Use 'ID <number>A', e.g., ID 1A."
Conflict == "New reservation ID already exists. Choose a different ID."
NewTableIndexError == "Invalid new table index."

\* Mutant: a record is matched by its id alone.
MatchesIdOnly(res, reservationId, customerName) == res.id = reservationId

\* res.id == reservationId && res.customerName == customerName
Matches(res, reservationId, customerName) ==
  res.id = reservationId /\ res.customerName = customerName

\* Index of the first record the handlers' loops stop at (0 when none matches).
FirstMatch(reservationId, customerName) ==
  LET hits == {i \in 1..Len(reservations) :
                 Matches(reservations[i], reservationId, customerName)}
  IN  IF hits = {} THEN 0 ELSE CHOOSE i \in hits : \A j \in hits : i <= j

\* The erase loop: every record matching (id, customerName) is removed, the
\* others keep their order.
RECURSIVE EraseMatching(_, _, _)
EraseMatching(rs, reservationId, customerName) ==
  IF rs = <<>> THEN <<>>
  ELSE IF Matches(Head(rs), reservationId, customerName)
       THEN EraseMatching(Tail(rs), reservationId, customerName)
       ELSE <<Head(rs)>> \o EraseMatching(Tail(rs), reservationId, customerName)

\* Mutant: the record is removed and its table stays booked.
cancelReservationKeepsTable(reservationId, customerName, logOk) ==
  IF ~validateReservationId(reservationId) THEN Throw(IdFormatError)
  ELSE LET m == FirstMatch(reservationId, customerName)
       IN  IF m = 0 THEN Throw(NotFoundCancel)
           ELSE writeLogToFile(logOk, 0, tables,
                  EraseMatching(reservations, reservationId, customerName),
                  nextReservationId)

cancelReservation(reservationId, customerName, logOk) ==
  IF ~validateReservationId(reservationId) THEN Throw(IdFormatError)
  ELSE LET m == FirstMatch(reservationId, customerName)
       IN  IF m = 0 THEN Throw(NotFoundCancel)
           ELSE writeLogToFile(logOk, 0,
                  [tables EXCEPT ![reservations[m].tableNumber] = TRUE],
                  EraseMatching(reservations, reservationId, customerName),
                  nextReservationId)

\* Mutant: the old slot is not re-occupied when the new one is booked.
ClaimTableNoRevert(oldTableIndex, newTableIndex) ==
  IF newTableIndex # -1
  THEN IF newTableIndex < 0 \/ newTableIndex >= NumTables
       THEN [err |-> NewTableIndexError, tables |-> tables, table |-> oldTableIndex]
       ELSE LET released == [tables EXCEPT ![oldTableIndex] = TRUE]
            IN  IF ~released[newTableIndex]
                THEN [err |-> TableUnavailable, tables |-> released,
                      table |-> oldTableIndex]
                ELSE [err |-> "",
                      tables |-> [released EXCEPT ![newTableIndex] = FALSE],
                      table |-> newTableIndex]
  ELSE [err |-> "", tables |-> tables, table |-> oldTableIndex]

\* Mutant: the new slot is claimed and the old one is never released.
ClaimTableOldSlotKept(oldTableIndex, newTableIndex) ==
  IF newTableIndex # -1
  THEN IF newTableIndex < 0 \/ newTableIndex >= NumTables
       THEN [err |-> NewTableIndexError, tables |-> tables, table |-> oldTableIndex]
       ELSE IF ~tables[newTableIndex] /\ newTableIndex # oldTableIndex
            THEN [err |-> TableUnavailable, tables |-> tables,
                  table |-> oldTableIndex]
            ELSE [err |-> "",
                  tables |-> [tables EXCEPT ![newTableIndex] = FALSE],
                  table |-> newTableIndex]
  ELSE [err |-> "", tables |-> tables, table |-> oldTableIndex]

\* Mutant: the new slot is claimed without looking at its occupancy.
ClaimTableNoOccupancyCheck(oldTableIndex, newTableIndex) ==
  IF newTableIndex # -1
  THEN IF newTableIndex < 0 \/ newTableIndex >= NumTables
       THEN [err |-> NewTableIndexError, tables |-> tables, table |-> oldTableIndex]
       ELSE [err |-> "",
             tables |-> [[tables EXCEPT ![oldTableIndex] = TRUE]
                           EXCEPT ![newTableIndex] = FALSE],
             table |-> newTableIndex]
  ELSE [err |-> "", tables |-> tables, table |-> oldTableIndex]

\* Lines 309-321: the table pool after the release/claim sequence, or the
\* message thrown (with the pool as it was).
ClaimTable(oldTableIndex, newTableIndex) ==
  IF newTableIndex # -1
  THEN IF newTableIndex < 0 \/ newTableIndex >= NumTables
       THEN [err |-> NewTableIndexError, tables |-> tables, table |-> oldTableIndex]
       ELSE LET released == [tables EXCEPT ![oldTableIndex] = TRUE]
            IN  IF ~released[newTableIndex]
                THEN [err |-> TableUnavailable,
                      tables |-> [released EXCEPT ![oldTableIndex] = FALSE],
                      table |-> oldTableIndex]
                ELSE [err |-> "",
                      tables |-> [released EXCEPT ![newTableIndex] = FALSE],
                      table |-> newTableIndex]
  ELSE [err |-> "", tables |-> tables, table |-> oldTableIndex]

\* The field replacement with the party size written even when it is the
\* sentinel.
UpdatedRecordPartySizeOverwritten(res, newId, newName, newPhone, newPartySize, newDate, newTime, newTableIndex) ==
  [id           |-> IF newId # Zero THEN newId ELSE res.id,
   customerName |-> IF newName # "0" THEN newName ELSE res.customerName,
   phoneNumber  |-> IF newPhone # Zero THEN newPhone ELSE res.phoneNumber,
   partySize    |-> newPartySize,
   date         |-> IF newDate # Zero THEN newDate ELSE res.date,
   time         |-> IF newTime # Zero THEN newTime ELSE res.time,
   tableNumber  |-> newTableIndex]

\* Lines 323-334: the matched record with the supplied fields replaced.
UpdatedRecord(res, newId, newName, newPhone, newPartySize, newDate, newTime, newTableIndex) ==
  [id           |-> IF newId # Zero THEN newId ELSE res.id,
   customerName |-> IF newName # "0" THEN newName ELSE res.customerName,
   phoneNumber  |-> IF newPhone # Zero THEN newPhone ELSE res.phoneNumber,
   partySize    |-> IF newPartySize # 0 THEN newPartySize ELSE res.partySize,
   date         |-> IF newDate # Zero THEN newDate ELSE res.date,
   time         |-> IF newTime # Zero THEN newTime ELSE res.time,
   tableNumber  |-> newTableIndex]

\* Mutant: a new time supplied without a new date is validated against the
\* date stored in the record.
updateReservationTimeAgainstStoredDate(reservationId, customerName, newId, newName, newPhone, newPartySize, newDate, newTime, newTableIndex, logOk) ==
  IF ~validateReservationId(reservationId) THEN Throw(IdFormatError)
  ELSE LET m == FirstMatch(reservationId, customerName) IN
  IF m = 0 THEN Throw(NotFoundUpdate)
  ELSE IF newId # Zero /\ ~validateReservationId(newId) THEN Throw(NewIdFormatError)
  ELSE IF newId # Zero /\ reservationIdExists(newId, reservationId) THEN Throw(Conflict)
  ELSE IF newPhone # Zero /\ ~validatePhoneNumber(newPhone) THEN Throw(PhoneError)
  ELSE IF newPartySize # 0 /\ ~validatePartySize(newPartySize) THEN Throw(PartySizeError)
  ELSE IF newDate # Zero /\ ~validateDate(newDate) THEN Throw(DateError)
  ELSE IF newTime # Zero
          /\ ~validateTime(newTime, IF newDate # Zero THEN newDate
                                                     ELSE reservations[m].date)
       THEN Throw(TimeError)
  ELSE LET c == ClaimTable(reservations[m].tableNumber, newTableIndex) IN
  IF c.err # "" THEN Outcome(c.err, -1, c.tables, reservations, nextReservationId)
  ELSE writeLogToFile(logOk, 0, c.tables,
         [reservations EXCEPT ![m] =
            UpdatedRecord(reservations[m], newId, newName, newPhone, newPartySize,
                          newDate, newTime, c.table)],
         nextReservationId)

\* Mutant: the table is released and claimed before the new id, phone, party
\* size, date and time are checked.
updateReservationTableCheckedFirst(reservationId, customerName, newId, newName, newPhone, newPartySize, newDate, newTime, newTableIndex, logOk) ==
  IF ~validateReservationId(reservationId) THEN Throw(IdFormatError)
  ELSE LET m == FirstMatch(reservationId, customerName) IN
  IF m = 0 THEN Throw(NotFoundUpdate)
  ELSE LET c == ClaimTable(reservations[m].tableNumber, newTableIndex) IN
  IF c.err # "" THEN Outcome(c.err, -1, c.tables, reservations, nextReservationId)
  ELSE IF newId # Zero /\ ~validateReservationId(newId) THEN Throw(NewIdFormatError)
  ELSE IF newId # Zero /\ reservationIdExists(newId, reservationId) THEN Throw(Conflict)
  ELSE IF newPhone # Zero /\ ~validatePhoneNumber(newPhone) THEN Throw(PhoneError)
  ELSE IF newPartySize # 0 /\ ~validatePartySize(newPartySize) THEN Throw(PartySizeError)
  ELSE IF newDate # Zero /\ ~validateDate(newDate) THEN Throw(DateError)
  ELSE IF newTime # Zero
          /\ ~validateTime(newTime, IF newDate # Zero THEN newDate ELSE CURRENT_DATE)
       THEN Throw(TimeError)
  ELSE writeLogToFile(logOk, 0, c.tables,
         [reservations EXCEPT ![m] =
            UpdatedRecord(reservations[m], newId, newName, newPhone, newPartySize,
                          newDate, newTime, c.table)],
         nextReservationId)

updateReservation(reservationId, customerName, newId, newName, newPhone, newPartySize, newDate, newTime, newTableIndex, logOk) ==
  IF ~validateReservationId(reservationId) THEN Throw(IdFormatError)
  ELSE LET m == FirstMatch(reservationId, customerName) IN
  IF m = 0 THEN Throw(NotFoundUpdate)
  ELSE IF newId # Zero /\ ~validateReservationId(newId) THEN Throw(NewIdFormatError)
  ELSE IF newId # Zero /\ reservationIdExists(newId, reservationId) THEN Throw(Conflict)
  ELSE IF newPhone # Zero /\ ~validatePhoneNumber(newPhone) THEN Throw(PhoneError)
  ELSE IF newPartySize # 0 /\ ~validatePartySize(newPartySize) THEN Throw(PartySizeError)
  ELSE IF newDate # Zero /\ ~validateDate(newDate) THEN Throw(DateError)
  ELSE IF newTime # Zero
          /\ ~validateTime(newTime, IF newDate # Zero THEN newDate ELSE CURRENT_DATE)
       THEN Throw(TimeError)
  ELSE LET c == ClaimTable(reservations[m].tableNumber, newTableIndex) IN
  IF c.err # "" THEN Outcome(c.err, -1, c.tables, reservations, nextReservationId)
  ELSE writeLogToFile(logOk, 0, c.tables,
         [reservations EXCEPT ![m] =
            UpdatedRecord(reservations[m], newId, newName, newPhone, newPartySize,
                          newDate, newTime, c.table)],
         nextReservationId)

(* -------------------------------- views ------------------------------- *)

\* What a read-only operation leaves behind: it returns normally, prints out,
\* and assigns no field and writes no log line.
Shown(out) ==
  [err |-> "", out |-> out, tables |-> tables, reservations |-> reservations,
   nextReservationId |-> nextReservationId, log |-> log]

\* One printed line per table: its 1-based number and AVAILABLE or BOOKED.
viewTableAvailability ==
  Shown([i \in 1..NumTables |->
           [table |-> i,
            status |-> IF tables[i - 1] THEN "AVAILABLE" ELSE "BOOKED"]])

\* The printed line of one reservation.
PrintedReservation(res) ==
  [id |-> res.id, name |-> res.customerName, contact |-> res.phoneNumber,
   partySize |-> res.partySize, date |-> res.date, time |-> res.time,
   table |-> res.tableNumber + 1]

\* The printed lines of the reservations rs made under customerName, in the
\* order of the list.
RECURSIVE PrintedFor(_, _)
PrintedFor(rs, customerName) ==
  IF rs = <<>> THEN <<>>
  ELSE (IF Head(rs).customerName = customerName
        THEN <<PrintedReservation(Head(rs))>> ELSE <<>>)
       \o PrintedFor(Tail(rs), customerName)

\* Mutant: the reservations that are printed are dropped from the list.
viewCustomerReservationsErasesShown(customerName) ==
  [Shown([rows |-> PrintedFor(reservations, customerName), message |-> ""])
     EXCEPT !.reservations =
        SelectSeq(reservations, LAMBDA res : res.customerName # customerName)]

\* Mutant: the table is printed 0-based.
viewCustomerReservationsZeroBased(customerName) ==
  LET rows == PrintedFor(reservations, customerName)
  IN  Shown([rows |-> [i \in 1..Len(rows) |->
                         [rows[i] EXCEPT !.table = rows[i].table - 1]],
             message |-> IF rows = <<>> THEN "No reservation to view." ELSE ""])

viewCustomerReservations(customerName) ==
  LET rows == PrintedFor(reservations, customerName)
  IN  Shown([rows |-> rows,
             message |-> IF rows = <<>> THEN "No reservation to view." ELSE ""])

\* The lines of logs.txt in file order, or the message printed when the file
\* cannot be opened for reading.
viewLogs(logReadable) ==
  Shown(IF logReadable THEN [lines |-> log, message |-> ""]
        ELSE [lines |-> <<>>, message |-> LogFileError])

(* ------------------------------ log lines ----------------------------- *)

\* A line of logs.txt without its constant timestamp: "[role: username]",
\* the action, and the details or, after " Error: ", the error message.
LogLine(r, name, action, details, error) ==
  [role |-> r, username |-> name, action |-> action, details |-> details,
   error |-> error]

logLogin(r, name) == LogLine(r, name, "Logged in", <<>>, "")

logReservationAction(r, name, action, details) == LogLine(r, name, action, details, "")

logError(r, name, action, errorMsg) == LogLine(r, name, action, <<>>, errorMsg)

\* Line 214: the line reserveTable writes.
reserveTableLogLine(customerName, partySize, date, time, tableNumber) ==
  logReservationAction("Customer", customerName, "Reserved table",
     <<"#">> \o to_string(tableNumber + 1) \o <<" ", "f", "o", "r", " ">>
       \o to_string(partySize) \o <<" ", "o", "n", " ">> \o date
       \o <<" ", "a", "t", " ">> \o time)

\* Line 244: the line cancelReservation writes.
cancelReservationLogLine(reservationId, customerName) ==
  logReservationAction("Customer", customerName, "Cancelled reservation",
                       <<"I", "D", " ">> \o reservationId)

\* Line 335: the line updateReservation writes.
updateReservationLogLine(reservationId, customerName) ==
  logReservationAction("Customer", customerName, "Updated reservation",
                       <<"I", "D", " ">> \o reservationId)

(* ------------------------------- inputs ------------------------------- *)

NameInputs == {"alice", "bob"}

Phone1 == <<"1","2","3","-","4","5","6","-","7","8","9","0">>
PhoneNoDashes == <<"1","2","3","4","5","6","7","8","9","0">>

Tomorrow == <<"2","0","2","5","-","0","5","-","2","0">>
Yesterday == <<"2","0","2","5","-","0","5","-","1","8">>

TimeAtReference == <<"2","2",":","1","9">>
TimeAfterReference == <<"2","2",":","2","0">>
Hour24 == <<"2","4",":","0","0">>

IdLeadingZero == <<"I","D"," ","0","2","A">>
IdNoDigits == <<"I","D"," ","A">>

PhoneInputs == {Phone1, PhoneNoDashes}
PartySizeInputs == {0, 2}
DateInputs == {CURRENT_DATE, Tomorrow, Yesterday}
TimeInputs == {TimeAtReference, TimeAfterReference, Hour24}
TableInputs == {-1, 0, 3, NumTables}
IdInputs == {MakeId(k) : k \in 1..MaxId} \cup {IdLeadingZero, IdNoDigits}

\* The arguments of reserveTable that are tried: every date, time and table
\* with a well-formed phone and party size, and every phone and party size at
\* one date and time.
ReserveInputs ==
  [customerName : NameInputs, phoneNumber : {Phone1}, partySize : {2},
   date : DateInputs, time : TimeInputs, tableNumber : TableInputs]
  \cup
  [customerName : {"alice"}, phoneNumber : PhoneInputs, partySize : PartySizeInputs,
   date : {Tomorrow}, time : {TimeAfterReference}, tableNumber : {0, 3}]

reserve(a, logOk) ==
  reserveTable(a.customerName, a.phoneNumber, a.partySize, a.date, a.time,
               a.tableNumber, logOk)

\* The update that supplies nothing.
NoChange ==
  [newId |-> Zero, newName |-> "0", newPhone |-> Zero, newPartySize |-> 0,
   newDate |-> Zero, newTime |-> Zero, newTableIndex |-> -1]

NewIdInputs == {MakeId(2), IdLeadingZero, IdNoDigits}
NewPhoneInputs == {Phone1, PhoneNoDashes}
NewPartySizeInputs == {2, -1}
NewDateInputs == {CURRENT_DATE, Tomorrow, Yesterday}
NewTimeInputs == {TimeAtReference, TimeAfterReference, Hour24}
NewTableInputs == {0, 3, NumTables}

\* The optional arguments of updateReservation that are tried: each field
\* alone, a date with a time, and a table with a new id or a phone.
UpdateInputs ==
  {NoChange}
  \cup {[NoChange EXCEPT !.newId = v] : v \in NewIdInputs}
  \cup {[NoChange EXCEPT !.newName = v] : v \in NameInputs}
  \cup {[NoChange EXCEPT !.newPhone = v] : v \in NewPhoneInputs}
  \cup {[NoChange EXCEPT !.newPartySize = v] : v \in NewPartySizeInputs}
  \cup {[NoChange EXCEPT !.newDate = v] : v \in NewDateInputs}
  \cup {[NoChange EXCEPT !.newTime = v] : v \in NewTimeInputs}
  \cup {[NoChange EXCEPT !.newTableIndex = v] : v \in NewTableInputs}
  \cup {[NoChange EXCEPT !.newDate = d, !.newTime = t] :
          d \in NewDateInputs, t \in NewTimeInputs}
  \cup {[NoChange EXCEPT !.newTableIndex = k, !.newId = v] :
          k \in NewTableInputs, v \in NewIdInputs}
  \cup {[NoChange EXCEPT !.newTableIndex = k, !.newPhone = v] :
          k \in NewTableInputs, v \in NewPhoneInputs}

update(reservationId, customerName, u, logOk) ==
  updateReservation(reservationId, customerName, u.newId, u.newName, u.newPhone,
                    u.newPartySize, u.newDate, u.newTime, u.newTableIndex, logOk)

(* ------------------------------ actions ------------------------------- *)

\* The store takes what the handler left behind (the outcome is bound once, as
\* the one element of a set).
Apply(o) ==
  /\ tables' = o.tables
  /\ reservations' = o.reservations
  /\ nextReservationId' = o.nextReservationId

\* The id counter is capped: a reservation that would use a number above MaxId
\* is not made.
ReserveStep ==
  \E a \in ReserveInputs, logOk \in BOOLEAN :
     \E o \in {reserve(a, logOk)} :
         /\ o.nextReservationId <= MaxId + 1
         /\ Apply(o)
         /\ UNCHANGED <<sessionVars, validationVars>>

CancelStep ==
  \E reservationId \in IdInputs, customerName \in NameInputs, logOk \in BOOLEAN :
     \E o \in {cancelReservation(reservationId, customerName, logOk)} :
         /\ Apply(o)
         /\ UNCHANGED <<sessionVars, validationVars>>

\* A call that finds no (reservationId, customerName) record throws before it
\* reads its optional arguments, so these are tried only where one is found.
UpdateStep ==
  \E reservationId \in IdInputs, customerName \in NameInputs :
     /\ IF FirstMatch(reservationId, customerName) = 0
        THEN \E o \in {update(reservationId, customerName, NoChange, TRUE)} : Apply(o)
        ELSE \E u \in UpdateInputs, logOk \in BOOLEAN :
                \E o \in {update(reservationId, customerName, u, logOk)} : Apply(o)
     /\ UNCHANGED <<sessionVars, validationVars>>

Next == ReserveStep \/ CancelStep \/ UpdateStep

Spec == Init /\ [][Next]_vars

(* -------------------------- validation runs -------------------------- *)

\* Time texts: every five-character text over a few characters per position
\* (hours 01..99, minutes 10..69, a colon or a dash), and texts of other
\* lengths or with a letter.
TimeTexts ==
  {<<h1, h2, sep, m1, m2>> :
      h1 \in {"0", "2", "9"}, h2 \in {"1", "2", "3", "4", "9"}, sep \in {":", "-"},
      m1 \in {"1", "2", "5", "6"}, m2 \in {"0", "9"}}
  \cup {<<>>, <<"9",":","3","0">>, <<"2","2",":","2","0","0">>,
        <<"2","a",":","2","0">>, <<"2","3",":","0","0">>, <<"0","0",":","0","0">>}

\* Date arguments: the reference date, another valid date, a past date and
\* the "0" that updateReservation never passes on.
DateTexts == {CURRENT_DATE, Tomorrow, Yesterday, Zero}

\* Texts given to validateDate: every ten-character text over three years,
\* six month fields (00 and 13 among them), eight day fields (00 and 32 among
\* them) and a dash or a slash, and texts of other lengths or with a letter.
DateProbeTexts ==
  {<<"2", "0", "2", y, sep, m1, m2, sep, d1, d2>> :
      y \in {"4", "5", "6"}, sep \in {"-", "/"},
      m1 \in {"0", "1"}, m2 \in {"0", "2", "3", "5"},
      d1 \in {"0", "1", "2", "3"}, d2 \in {"0", "1", "2", "8", "9"}}
  \cup {<<>>, Zero, <<"2","0","2","5","-","5","-","2","0">>,
        <<"2","0","2","6","-","0","6","-","1","5","0">>,
        <<"2","0","2","6","-","0","a","-","1","5">>}

ValidationInit ==
  /\ ProgramStart
  /\ call \in [fn : {"validateTime"}, time : TimeTexts, date : DateTexts]
             \cup [fn : {"validateDate"}, date : DateProbeTexts]
  /\ verdict = <<>>

ValidateTimeStep ==
  /\ call.fn = "validateTime"
  /\ verdict = <<>>
  /\ verdict' = <<validateTime(call.time, call.date)>>
  /\ UNCHANGED <<storeVars, sessionVars, call>>

ValidateDateStep ==
  /\ call.fn = "validateDate"
  /\ verdict = <<>>
  /\ verdict' = <<validateDate(call.date)>>
  /\ UNCHANGED <<storeVars, sessionVars, call>>

ValidationNext == ValidateTimeStep \/ ValidateDateStep

Validation == ValidationInit /\ [][ValidationNext]_vars

(* ------------------------------ session ------------------------------ *)

adminUsername == "admin"
adminPassword == "admin123"

\* What is typed at the login and account prompts. One name is tried at both
\* the receptionist and the customer prompts.
AdminUsernameInputs == {adminUsername, "alice"}
ReceptionistUsernameInputs == {"bob"}
PasswordInputs == {adminPassword, "pw"}
AccountPasswordInputs == {"pw"}

\* map[key] = value
Put(map, key, value) ==
  [k \in DOMAIN map \cup {key} |-> IF k = key THEN value ELSE map[k]]

\* map.count(key) && map[key] == value
Holds(map, key, value) == key \in DOMAIN map /\ map[key] = value

\* Mutant: the password of an existing username is replaced.
AccountCreatedOverwriting(map, name, password) == Put(map, name, password)

\* The accounts after the create-account prompts were given name and
\* password: a name that exists is refused and asked for again, a new one is
\* stored with its password.
AccountCreated(map, name, password) ==
  IF name \in DOMAIN map THEN map ELSE Put(map, name, password)

\* The test of the receptionist login prompt.
receptionistLoginAccepted(name, password) == Holds(receptionistAccounts, name, password)

\* The test of the customer login prompt.
customerLoginAccepted(name, password) == Holds(customerAccounts, name, password)

\* Mutant: the file is opened without ios::app and holds the new line only.
AppendedTruncating(line) == <<line>>

\* The content of logs.txt after writeLogToFile has opened it and written the
\* line.
Appended(line) == Append(log, line)

\* writeLogToFile with a file that opens.
Written(line) ==
  /\ Len(log) < MaxLog
  /\ log' = Appended(line)

\* User::User calls logLogin before the menu is shown: when the log file
\* cannot be opened the exception leaves the constructor and main, which has
\* no handler, and the process is terminated.
UserConstructed(r, name, menu, logOk) ==
  IF logOk
  THEN Written(logLogin(r, name)) /\ pc' = menu /\ role' = r /\ username' = name
  ELSE pc' = "Terminated" /\ UNCHANGED <<role, username, log>>

\* A call of logError outside or inside a catch block of the customer menu:
\* the menu goes on when the line is written, the exception leaves showMenu
\* and main when it is not.
ErrorLogged(action, errorMsg, errLogOk) ==
  /\ IF errLogOk
     THEN Written(logError("Customer", username, action, errorMsg)) /\ pc' = pc
     ELSE pc' = "Terminated" /\ log' = log
  /\ UNCHANGED <<role, username, customerAccounts, receptionistAccounts>>

\* Where the customer menu stands, and what logs.txt holds, after a store
\* operation called from it returned o: the operation has written line when it
\* returned normally; its exception is caught and logged as an error, and
\* when that line cannot be written the exception of logError leaves showMenu
\* and main.
CustomerRequested(o, action, line, errLogOk) ==
  CASE o.err = "" -> [pc |-> pc, log |-> Appended(line)]
    [] o.err # "" /\ errLogOk ->
         [pc |-> pc, log |-> Appended(logError("Customer", username, action, o.err))]
    [] OTHER -> [pc |-> "Terminated", log |-> log]

\* The same for the admin menu, whose catch blocks only print.
AdminRequested(o, line) ==
  IF o.err = "" THEN [pc |-> pc, log |-> Appended(line)]
                ELSE [pc |-> pc, log |-> log]

\* The menu goes on as the request r left it.
Requested(r) ==
  /\ Len(r.log) <= MaxLog
  /\ pc' = r.pc
  /\ log' = r.log
  /\ UNCHANGED <<role, username, customerAccounts, receptionistAccounts>>

\* A read-only operation called from a menu.
View(o) ==
  /\ Apply(o)
  /\ log' = o.log
  /\ UNCHANGED <<pc, role, username, customerAccounts, receptionistAccounts,
                 validationVars>>

SelectRole ==
  /\ pc = "RoleSelection"
  /\ \E roleChoice \in 1..3 :
        pc' = CASE roleChoice = 1 -> "AdminLogin"
                [] roleChoice = 2 -> "ReceptionistLogin"
                [] roleChoice = 3 -> "CustomerOption"
  /\ UNCHANGED <<storeVars, role, username, customerAccounts, receptionistAccounts,
                 log, validationVars>>

\* Role choice 4: isRunning = false and main returns 0.
Exit ==
  /\ pc = "RoleSelection"
  /\ pc' = "Exited"
  /\ UNCHANGED <<storeVars, role, username, customerAccounts, receptionistAccounts,
                 log, validationVars>>

AdminLogin ==
  /\ pc = "AdminLogin"
  /\ \E name \in AdminUsernameInputs, password \in PasswordInputs, logOk \in BOOLEAN :
        IF name = adminUsername /\ password = adminPassword
        THEN UserConstructed("Admin", name, "AdminMenu", logOk)
        ELSE UNCHANGED <<pc, role, username, log>>
  /\ UNCHANGED <<storeVars, customerAccounts, receptionistAccounts, validationVars>>

ReceptionistLogin ==
  /\ pc = "ReceptionistLogin"
  /\ \E name \in ReceptionistUsernameInputs, password \in PasswordInputs,
        logOk \in BOOLEAN :
        IF receptionistLoginAccepted(name, password)
        THEN UserConstructed("Receptionist", name, "ReceptionistMenu", logOk)
        ELSE UNCHANGED <<pc, role, username, log>>
  /\ UNCHANGED <<storeVars, customerAccounts, receptionistAccounts, validationVars>>

CustomerOption ==
  /\ pc = "CustomerOption"
  /\ \E custOption \in 1..2 :
        pc' = IF custOption = 1 THEN "CustomerCreate" ELSE "CustomerLogin"
  /\ UNCHANGED <<storeVars, role, username, customerAccounts, receptionistAccounts,
                 log, validationVars>>

\* An existing username is asked for again; a new one is stored with its
\* password and the customer is logged in.
CustomerCreate ==
  /\ pc = "CustomerCreate"
  /\ \E name \in NameInputs, password \in AccountPasswordInputs, logOk \in BOOLEAN :
        /\ customerAccounts' = AccountCreated(customerAccounts, name, password)
        /\ IF name \in DOMAIN customerAccounts
           THEN UNCHANGED <<pc, role, username, log>>
           ELSE UserConstructed("Customer", name, "CustomerMenu", logOk)
  /\ UNCHANGED <<storeVars, receptionistAccounts, validationVars>>

CustomerLogin ==
  /\ pc = "CustomerLogin"
  /\ \E name \in NameInputs, password \in PasswordInputs,
        logOk \in BOOLEAN :
        IF customerLoginAccepted(name, password)
        THEN UserConstructed("Customer", name, "CustomerMenu", logOk)
        ELSE UNCHANGED <<pc, role, username, log>>
  /\ UNCHANGED <<storeVars, customerAccounts, receptionistAccounts, validationVars>>

\* Menu choice 6 (3 for a receptionist) confirmed: showMenu returns true and
\* main resets the user.
Logout ==
  /\ pc \in {"AdminMenu", "ReceptionistMenu", "CustomerMenu"}
  /\ pc' = "RoleSelection"
  /\ role' = ""
  /\ username' = ""
  /\ UNCHANGED <<storeVars, customerAccounts, receptionistAccounts, log,
                 validationVars>>

\* Customer menu choices 1 and 3.
CustomerView ==
  /\ pc = "CustomerMenu"
  /\ \/ View(viewCustomerReservations(username))
     \/ View(viewTableAvailability)

\* Receptionist and admin menu choices 1 and 2.
StaffView ==
  /\ pc \in {"ReceptionistMenu", "AdminMenu"}
  /\ \/ \E logReadable \in BOOLEAN : View(viewLogs(logReadable))
     \/ View(viewTableAvailability)

\* What is typed at the prompts of "Reserve Table"; the table is typed 1-based.
MenuReserveInputs ==
  [phoneNumber : {Phone1, PhoneNoDashes}, partySize : {2}, date : {Tomorrow},
   time : {TimeAfterReference}, tableInput : {1, 4}]

\* The message logged for the first entry that a prompt of "Reserve Table"
\* rejects, "" when every entry is accepted.
ReservePromptError(a) ==
  CASE ~validatePhoneNumber(a.phoneNumber) -> "Invalid phone number format."
    [] ~validatePartySize(a.partySize) -> "Party size must be at least 1."
    [] ~validateDate(a.date) -> "Invalid date format or date is in the past."
    [] ~validateTime(a.time, a.date) -> "Invalid time format or time is in the past."
    [] a.tableInput \notin 1..10 -> "Invalid table number."
    [] OTHER -> ""

\* Customer menu choice 2: an entry that a prompt rejects is logged as an
\* error and asked for again; the accepted entries go to reserveTable, which
\* logs its success and whose exception is caught, printed and logged as an
\* error.
CustomerReserve ==
  /\ pc = "CustomerMenu"
  /\ \E a \in MenuReserveInputs :
        IF ReservePromptError(a) # ""
        THEN /\ \E errLogOk \in BOOLEAN :
                   ErrorLogged("Failed to reserve table", ReservePromptError(a), errLogOk)
             /\ UNCHANGED storeVars
        ELSE \E logOk \in BOOLEAN :
             \E o \in {reserveTable(username, a.phoneNumber, a.partySize, a.date,
                                    a.time, a.tableInput - 1, logOk)} :
                /\ o.nextReservationId <= MaxId + 1
                /\ Apply(o)
                /\ \E errLogOk \in BOOLEAN :
                      Requested(CustomerRequested(o, "Failed to reserve table",
                         reserveTableLogLine(username, a.partySize, a.date, a.time,
                                             a.tableInput - 1), errLogOk))
  /\ UNCHANGED validationVars

\* What is typed at the prompts of "Update Reservation"; the table is typed
\* 1-based, 0 keeps the current one.
MenuUpdateInputs ==
  [newId : {Zero, IdNoDigits, MakeId(1)}, newName : {"0"}, newPhone : {Zero},
   newPartySize : {0}, newDate : {Zero}, newTime : {Zero}, newTableChoice : {0}]
  \cup
  [newId : {Zero}, newName : {"0", "bob"}, newPhone : {Zero}, newPartySize : {0},
   newDate : {Zero}, newTime : {Zero}, newTableChoice : {0, 4}]

\* The index handed to updateReservation for what is typed at the table prompt.
NewTableIndex(u) == IF u.newTableChoice # 0 THEN u.newTableChoice - 1 ELSE -1

\* The message logged for the first entry that a prompt of the customer's
\* "Update Reservation" rejects, "" when every entry is accepted.
UpdatePromptError(reservationId, u) ==
  CASE ~validateReservationId(reservationId) ->
         "Invalid reservation ID format. Use 'ID <number>A', e.g., ID 1A."
    [] u.newId # Zero /\ ~validateReservationId(u.newId) ->
         "Invalid new reservation ID format. Use 'ID <number>A', e.g., ID 1A."
    [] u.newId # Zero /\ reservationIdExists(u.newId, reservationId) ->
         "New reservation ID already exists. Choose a different ID."
    [] u.newPhone # Zero /\ ~validatePhoneNumber(u.newPhone) ->
         "Invalid phone number format."
    [] u.newPartySize # 0 /\ ~validatePartySize(u.newPartySize) ->
         "Party size must be at least 1."
    [] u.newDate # Zero /\ ~validateDate(u.newDate) ->
         "Invalid date format or date is in the past."
    [] u.newTime # Zero
       /\ ~validateTime(u.newTime, IF u.newDate # Zero THEN u.newDate ELSE CURRENT_DATE) ->
         "Invalid time format or time is in the past."
    [] u.newTableChoice \notin 0..10 -> "Invalid table choice."
    [] OTHER -> ""

\* Customer menu choice 4: nothing is asked without a reservation under the
\* username; a rejected entry is logged as an error and asked for again; the
\* confirmed entries go to updateReservation, which logs its success and whose
\* exception is caught, printed and logged as an error.
CustomerUpdate ==
  /\ pc = "CustomerMenu"
  /\ hasReservations(username)
  /\ \E reservationId \in IdInputs, u \in MenuUpdateInputs :
        IF UpdatePromptError(reservationId, u) # ""
        THEN /\ \E errLogOk \in BOOLEAN :
                   ErrorLogged("Failed to update reservation",
                               UpdatePromptError(reservationId, u), errLogOk)
             /\ UNCHANGED storeVars
        ELSE \E confirm \in BOOLEAN :
             IF ~confirm
             THEN UNCHANGED <<storeVars, sessionVars>>
             ELSE \E logOk \in BOOLEAN :
                  \E o \in {updateReservation(reservationId, username, u.newId,
                                u.newName, u.newPhone, u.newPartySize, u.newDate,
                                u.newTime, NewTableIndex(u), logOk)} :
                     /\ Apply(o)
                     /\ \E errLogOk \in BOOLEAN :
                           Requested(CustomerRequested(o, "Failed to update reservation",
                              updateReservationLogLine(reservationId, username), errLogOk))
  /\ UNCHANGED validationVars

\* Customer menu choice 5: nothing is asked without a reservation under the
\* username; the confirmed id goes to cancelReservation, which logs its
\* success and whose exception is caught, printed and logged as an error
\* before the id is asked for again.
CustomerCancel ==
  /\ pc = "CustomerMenu"
  /\ hasReservations(username)
  /\ \E reservationId \in IdInputs, confirm \in BOOLEAN :
        IF ~confirm
        THEN UNCHANGED <<storeVars, sessionVars>>
        ELSE \E logOk \in BOOLEAN :
             \E o \in {cancelReservation(reservationId, username, logOk)} :
                /\ Apply(o)
                /\ \E errLogOk \in BOOLEAN :
                      Requested(CustomerRequested(o, "Failed to cancel reservation",
                         cancelReservationLogLine(reservationId, username), errLogOk))
  /\ UNCHANGED validationVars

\* Whether a prompt of the admin's "Update Reservation" rejects an entry;
\* newId is not looked at.
AdminUpdatePromptRejects(reservationId, u) ==
  \/ ~validateReservationId(reservationId)
  \/ (u.newPhone # Zero /\ ~validatePhoneNumber(u.newPhone))
  \/ (u.newPartySize # 0 /\ u.newPartySize < 1)
  \/ (u.newDate # Zero /\ ~validateDate(u.newDate))
  \/ (u.newTime # Zero
      /\ ~validateTime(u.newTime, IF u.newDate # Zero THEN u.newDate ELSE CURRENT_DATE))
  \/ u.newTableChoice \notin 0..10

\* Admin menu choice 3: the customer name must have a reservation; a rejected
\* entry is asked for again; the entries go to updateReservation, which logs
\* its success and whose exception is caught and printed.
AdminUpdate ==
  /\ pc = "AdminMenu"
  /\ \E customerName \in NameInputs, reservationId \in IdInputs,
        u \in MenuUpdateInputs :
        /\ hasReservations(customerName)
        /\ IF AdminUpdatePromptRejects(reservationId, u)
           THEN UNCHANGED <<storeVars, sessionVars>>
           ELSE \E logOk \in BOOLEAN :
                \E o \in {updateReservation(reservationId, customerName, u.newId,
                             u.newName, u.newPhone, u.newPartySize, u.newDate, u.newTime,
                             NewTableIndex(u), logOk)} :
                   /\ Apply(o)
                   /\ Requested(AdminRequested(o,
                         updateReservationLogLine(reservationId, customerName)))
  /\ UNCHANGED validationVars

\* Mutant: the receptionist menu offers the cancellation too.
AdminCancelInStaffMenus ==
  /\ pc \in {"AdminMenu", "ReceptionistMenu"}
  /\ \E customerName \in NameInputs, reservationId \in IdInputs, logOk \in BOOLEAN :
        /\ hasReservations(customerName)
        /\ \E o \in {cancelReservation(reservationId, customerName, logOk)} :
              /\ Apply(o)
              /\ Requested(AdminRequested(o,
                    cancelReservationLogLine(reservationId, customerName)))
  /\ UNCHANGED validationVars

\* Admin menu choice 4: the customer name must have a reservation; the id goes
\* to cancelReservation, which logs its success and whose exception is caught
\* and printed.
AdminCancel ==
  /\ pc = "AdminMenu"
  /\ \E customerName \in NameInputs, reservationId \in IdInputs, logOk \in BOOLEAN :
        /\ hasReservations(customerName)
        /\ \E o \in {cancelReservation(reservationId, customerName, logOk)} :
              /\ Apply(o)
              /\ Requested(AdminRequested(o,
                    cancelReservationLogLine(reservationId, customerName)))
  /\ UNCHANGED validationVars

\* Admin menu choice 5: an existing username is asked for again; a new one is
\* stored with its password.
AdminCreateReceptionist ==
  /\ pc = "AdminMenu"
  /\ \E recUsername \in ReceptionistUsernameInputs,
        recPassword \in AccountPasswordInputs :
        receptionistAccounts' =
           AccountCreated(receptionistAccounts, recUsername, recPassword)
  /\ UNCHANGED <<storeVars, pc, role, username, customerAccounts, log,
                 validationVars>>

SessionNext ==
  \/ SelectRole
  \/ Exit
  \/ AdminLogin
  \/ ReceptionistLogin
  \/ CustomerOption
  \/ CustomerCreate
  \/ CustomerLogin
  \/ Logout
  \/ CustomerView
  \/ StaffView
  \/ CustomerReserve
  \/ CustomerUpdate
  \/ CustomerCancel
  \/ AdminUpdate
  \/ AdminCancel
  \/ AdminCreateReceptionist

Session == Init /\ [][SessionNext]_vars

(* ------------------------------- claims ------------------------------- *)

TableIndexes == 0..(NumTables - 1)

Referenced(t) == \E i \in 1..Len(reservations) : reservations[i].tableNumber = t

\* C1: in every state reached by reserveTable, cancelReservation and
\* updateReservation calls, failed ones included, a table is marked available
\* exactly when no active reservation has it as its tableNumber.
C1_AvailableIffUnreferenced ==
  \A t \in TableIndexes : tables[t] <=> ~Referenced(t)

\* One reservation is left on a booked table after another one was made and
\* removed again.
C1_Witness ==
  /\ Len(reservations) = 1
  /\ nextReservationId = 3
  /\ ~tables[reservations[1].tableNumber]
  /\ \E t \in {0, 3} : tables[t]

\* C2: no two distinct active reservations have the same tableNumber.
C2_NoSharedTable ==
  \A i, j \in 1..Len(reservations) :
     i # j => reservations[i].tableNumber # reservations[j].tableNumber

\* Two reservations are active, the older one on the higher table.
C2_Witness ==
  /\ Len(reservations) = 2
  /\ reservations[1].tableNumber = 3
  /\ reservations[2].tableNumber = 0

\* C3: no two distinct active reservations have the same id, manual renames
\* and the reservations made after them included.
C3_NoSharedId ==
  \A i, j \in 1..Len(reservations) :
     i # j => reservations[i].id # reservations[j].id

\* A reservation renamed to "ID 02A" is active beside the one holding the
\* generated "ID 2A": two ids that differ only as strings.
C3_Witness ==
  /\ Len(reservations) = 2
  /\ reservations[1].id = IdLeadingZero
  /\ reservations[2].id = MakeId(2)
  /\ nextReservationId = 3

\* The stored time is strictly later than the reference time.
AfterReferenceTime(time) ==
  LET hour   == ParseDigits(SubSeq(time, 1, 2))
      minute == ParseDigits(SubSeq(time, 4, 5))
  IN  hour > CURRENT_HOUR \/ (hour = CURRENT_HOUR /\ minute > CURRENT_MINUTE)

\* C4: every active reservation's date is not earlier than the reference date
\* and, when it is the reference date, its time is strictly later than the
\* reference time.
C4_NeverInPast ==
  \A i \in 1..Len(reservations) :
     /\ ~StrLess(reservations[i].date, CURRENT_DATE)
     /\ (reservations[i].date = CURRENT_DATE =>
           AfterReferenceTime(reservations[i].time))

AvailableCount(t) == Cardinality({i \in TableIndexes : t[i]})

\* The sequence rs without its m-th element.
Without(rs, m) == SubSeq(rs, 1, m - 1) \o SubSeq(rs, m + 1, Len(rs))

\* Phone, party size, date and time pass validation.
FieldsPass(a) ==
  /\ validatePhoneNumber(a.phoneNumber)
  /\ validatePartySize(a.partySize)
  /\ validateDate(a.date)
  /\ validateTime(a.time, a.date)

\* C5: a reserveTable call whose phone, party size, date and time pass
\* validation and whose table is in range and available returns the requested
\* index, marks exactly that table unavailable (one table fewer is available)
\* and appends one record carrying the given fields, the existing records
\* unchanged.
C5_ReserveAvailableSucceeds ==
  \A a \in ReserveInputs, logOk \in BOOLEAN :
     (/\ FieldsPass(a)
      /\ a.tableNumber \in TableIndexes
      /\ tables[a.tableNumber])
     => LET o == reserve(a, logOk)
            n == Len(reservations)
        IN  /\ o.err = ""
            /\ o.ret = a.tableNumber
            /\ o.tables = [tables EXCEPT ![a.tableNumber] = FALSE]
            /\ AvailableCount(o.tables) = AvailableCount(tables) - 1
            /\ Len(o.reservations) = n + 1
            /\ SubSeq(o.reservations, 1, n) = reservations
            /\ o.reservations[n + 1].customerName = a.customerName
            /\ o.reservations[n + 1].phoneNumber = a.phoneNumber
            /\ o.reservations[n + 1].partySize = a.partySize
            /\ o.reservations[n + 1].date = a.date
            /\ o.reservations[n + 1].time = a.time
            /\ o.reservations[n + 1].tableNumber = a.tableNumber

\* The handler left the store as it found it.
StoreUnchanged(o) ==
  /\ o.tables = tables
  /\ o.reservations = reservations
  /\ o.nextReservationId = nextReservationId

\* C6 as stated: every reserveTable call naming an in-range table that is
\* booked throws TableUnavailable and leaves the table pool, the reservation
\* list and the id counter unchanged.
C6_BookedTableAlwaysUnavailable ==
  \A a \in ReserveInputs, logOk \in BOOLEAN :
     (a.tableNumber \in TableIndexes /\ ~tables[a.tableNumber])
     => LET o == reserve(a, logOk)
        IN  o.err = TableUnavailable /\ StoreUnchanged(o)

\* C6 amended: a reserveTable call whose phone, party size, date and time pass
\* validation and which names an in-range table that is booked throws
\* TableUnavailable; and every call naming a booked in-range table throws and
\* leaves the table pool, the reservation list and the id counter unchanged.
C6_BookedTableUnavailable ==
  \A a \in ReserveInputs, logOk \in BOOLEAN :
     (a.tableNumber \in TableIndexes /\ ~tables[a.tableNumber])
     => LET o == reserve(a, logOk)
        IN  /\ o.err # ""
            /\ StoreUnchanged(o)
            /\ (FieldsPass(a) => o.err = TableUnavailable)

\* A table was reserved and a second, valid request for it was refused.
C6_Witness ==
  /\ Len(reservations) = 1
  /\ nextReservationId = 2
  /\ \E a \in ReserveInputs :
        /\ FieldsPass(a)
        /\ a.tableNumber = reservations[1].tableNumber
        /\ reserve(a, TRUE).err = TableUnavailable

\* Some active record has this id and this customer name.
Active(reservationId, customerName) ==
  \E i \in 1..Len(reservations) :
     /\ reservations[i].id = reservationId
     /\ reservations[i].customerName = customerName

\* C7: a cancelReservation call that matches an active record succeeds, marks
\* that record's table available (one table more is available), removes that
\* one record and leaves the other records and tables unchanged.
C7_CancelMatchingSucceeds ==
  \A reservationId \in IdInputs, customerName \in NameInputs, logOk \in BOOLEAN :
     \A m \in 1..Len(reservations) :
        (/\ reservations[m].id = reservationId
         /\ reservations[m].customerName = customerName)
        => LET o == cancelReservation(reservationId, customerName, logOk)
           IN  /\ o.err = ""
               /\ o.tables = [tables EXCEPT ![reservations[m].tableNumber] = TRUE]
               /\ AvailableCount(o.tables) = AvailableCount(tables) + 1
               /\ o.reservations = Without(reservations, m)
               /\ o.nextReservationId = nextReservationId

\* C8 as stated: every cancelReservation call for which no active record has
\* both the id and the customer name throws NotFound and changes nothing.
C8_NoMatchAlwaysNotFound ==
  \A reservationId \in IdInputs, customerName \in NameInputs, logOk \in BOOLEAN :
     ~Active(reservationId, customerName)
     => LET o == cancelReservation(reservationId, customerName, logOk)
        IN  o.err = NotFoundCancel /\ StoreUnchanged(o)

\* C8 amended: a cancelReservation call for which no active record has both
\* the id and the customer name changes nothing and throws: NotFound when the
\* id has the shape 'ID <digits>A' (also when the id is active under another
\* customer name), the id-format error otherwise.
C8_NoMatchNotFound ==
  \A reservationId \in IdInputs, customerName \in NameInputs, logOk \in BOOLEAN :
     ~Active(reservationId, customerName)
     => LET o == cancelReservation(reservationId, customerName, logOk)
        IN  /\ StoreUnchanged(o)
            /\ o.err = IF validateReservationId(reservationId)
                       THEN NotFoundCancel ELSE IdFormatError

\* The id of an active reservation is refused under another customer's name.
C8_Witness ==
  \E i \in 1..Len(reservations), customerName \in NameInputs :
     /\ customerName # reservations[i].customerName
     /\ ~Active(reservations[i].id, customerName)
     /\ cancelReservation(reservations[i].id, customerName, TRUE).err = NotFoundCancel

\* The optional arguments of an update of record m other than the table pass
\* the checks made on them: a supplied id is well-formed and not the id of a
\* different active reservation, a supplied phone, party size and date are
\* valid, and a supplied time is valid for the supplied date, or for the
\* reference date when no date is supplied.
OtherArgsPass(m, u) ==
  /\ u.newId # Zero =>
        /\ validateReservationId(u.newId)
        /\ \A i \in 1..Len(reservations) : i # m => reservations[i].id # u.newId
  /\ u.newPhone # Zero => validatePhoneNumber(u.newPhone)
  /\ u.newPartySize # 0 => validatePartySize(u.newPartySize)
  /\ u.newDate # Zero => validateDate(u.newDate)
  /\ u.newTime # Zero =>
        validateTime(u.newTime, IF u.newDate # Zero THEN u.newDate ELSE CURRENT_DATE)

\* Record m is the one a call for (reservationId, customerName) addresses.
Addresses(m, reservationId, customerName) ==
  /\ reservations[m].id = reservationId
  /\ reservations[m].customerName = customerName

\* Table k is the table of an active reservation other than record m.
BookedByOther(m, k) ==
  \E j \in 1..Len(reservations) : j # m /\ reservations[j].tableNumber = k

\* C9 as stated: every updateReservation call that asks for an in-range table
\* booked by a different reservation throws TableUnavailable, and the table
\* pool (the caller's own table still unavailable) and the reservation list
\* are as before the call.
C9_TakenTableAlwaysUnavailable ==
  \A reservationId \in IdInputs, customerName \in NameInputs,
     u \in UpdateInputs, logOk \in BOOLEAN :
     \A m \in 1..Len(reservations) :
        (/\ Addresses(m, reservationId, customerName)
         /\ u.newTableIndex \in TableIndexes
         /\ BookedByOther(m, u.newTableIndex))
        => LET o == update(reservationId, customerName, u, logOk)
           IN  /\ o.err = TableUnavailable
               /\ StoreUnchanged(o)
               /\ ~o.tables[reservations[m].tableNumber]

\* C9 amended: an updateReservation call that asks for an in-range table
\* booked by a different reservation throws, and the table pool (the caller's
\* own table still unavailable) and the reservation list are as before the
\* call; the error is TableUnavailable when the other supplied arguments pass
\* their checks.
C9_TakenTableUnavailable ==
  \A reservationId \in IdInputs, customerName \in NameInputs,
     u \in UpdateInputs, logOk \in BOOLEAN :
     \A m \in 1..Len(reservations) :
        (/\ Addresses(m, reservationId, customerName)
         /\ u.newTableIndex \in TableIndexes
         /\ BookedByOther(m, u.newTableIndex))
        => LET o == update(reservationId, customerName, u, logOk)
           IN  /\ o.err # ""
               /\ StoreUnchanged(o)
               /\ ~o.tables[reservations[m].tableNumber]
               /\ (OtherArgsPass(m, u) => o.err = TableUnavailable)

\* With two reservations active, an update of one that asks for the other's
\* table (all else unchanged) was refused as TableUnavailable.
C9_Witness ==
  /\ Len(reservations) = 2
  /\ update(reservations[1].id, reservations[1].customerName,
            [NoChange EXCEPT !.newTableIndex = reservations[2].tableNumber],
            TRUE).err = TableUnavailable
  /\ ~tables[reservations[1].tableNumber]

\* C10: updateReservation with newTableIndex equal to the reservation's own
\* table, the other arguments valid or unchanged, succeeds, does not throw
\* TableUnavailable, and leaves the table pool as it was.
C10_OwnTableSucceeds ==
  \A reservationId \in IdInputs, customerName \in NameInputs,
     u \in UpdateInputs, logOk \in BOOLEAN :
     \A m \in 1..Len(reservations) :
        (/\ Addresses(m, reservationId, customerName)
         /\ u.newTableIndex = reservations[m].tableNumber
         /\ OtherArgsPass(m, u))
        => LET o == update(reservationId, customerName, u, logOk)
           IN  /\ o.err = ""
               /\ o.err # TableUnavailable
               /\ o.tables = tables

\* C11: whenever reserveTable, cancelReservation or updateReservation throws,
\* the table pool, the reservation list and the id counter are exactly as
\* they were before the call.
C11_FailureChangesNothing ==
  /\ \A a \in ReserveInputs, logOk \in BOOLEAN :
        LET o == reserve(a, logOk) IN o.err # "" => StoreUnchanged(o)
  /\ \A reservationId \in IdInputs, customerName \in NameInputs, logOk \in BOOLEAN :
        LET o == cancelReservation(reservationId, customerName, logOk)
        IN  o.err # "" => StoreUnchanged(o)
  /\ \A reservationId \in IdInputs, customerName \in NameInputs,
        u \in UpdateInputs, logOk \in BOOLEAN :
        LET o == update(reservationId, customerName, u, logOk)
        IN  o.err # "" => StoreUnchanged(o)

Phone2 == <<"5","5","5","-","0","1","0","-","2","0","2","0">>

\* Updates that supply a phone and a party size different from the stored
\* ones, alone and together with every other field.
FrameInputs ==
  UpdateInputs
  \cup {[NoChange EXCEPT !.newPhone = Phone2], [NoChange EXCEPT !.newPartySize = 4]}
  \cup {[newId |-> v, newName |-> n, newPhone |-> Phone2, newPartySize |-> 4,
         newDate |-> Tomorrow, newTime |-> TimeAtReference, newTableIndex |-> k] :
          v \in {MakeId(2), IdLeadingZero}, n \in NameInputs, k \in {0, 3}}

\* C12: after an updateReservation call that returns normally, each field of
\* the addressed record whose argument was the sentinel ("0", 0, or -1 for the
\* table) has its prior value and every other field has the supplied value (so
\* a table-only update leaves id, name, phone, party size, date and time as
\* they were), and no other record is modified.
C12_UpdateReplacesSuppliedFields ==
  \A reservationId \in IdInputs, customerName \in NameInputs,
     u \in FrameInputs, logOk \in BOOLEAN :
     \A m \in 1..Len(reservations) :
        Addresses(m, reservationId, customerName)
        => LET o == update(reservationId, customerName, u, logOk)
               old == reservations[m]
               new == o.reservations[m]
           IN  o.err = ""
               => /\ Len(o.reservations) = Len(reservations)
                  /\ \A i \in 1..Len(reservations) :
                        i # m => o.reservations[i] = reservations[i]
                  /\ new.id = (IF u.newId = Zero THEN old.id ELSE u.newId)
                  /\ new.customerName =
                        (IF u.newName = "0" THEN old.customerName ELSE u.newName)
                  /\ new.phoneNumber =
                        (IF u.newPhone = Zero THEN old.phoneNumber ELSE u.newPhone)
                  /\ new.partySize =
                        (IF u.newPartySize = 0 THEN old.partySize ELSE u.newPartySize)
                  /\ new.date = (IF u.newDate = Zero THEN old.date ELSE u.newDate)
                  /\ new.time = (IF u.newTime = Zero THEN old.time ELSE u.newTime)
                  /\ new.tableNumber =
                        (IF u.newTableIndex = -1 THEN old.tableNumber
                                                 ELSE u.newTableIndex)
                  /\ DOMAIN new = DOMAIN old

\* A reservation that was renamed to "ID 02A" and kept its other fields sits
\* beside a second one, and an update supplying all seven fields of the first
\* succeeds, replacing the phone and the party size and leaving the second
\* record alone.
C12_Witness ==
  /\ Len(reservations) = 2
  /\ reservations[1].id = IdLeadingZero
  /\ reservations[1].phoneNumber = Phone1
  /\ reservations[1].tableNumber = 3
  /\ \E u \in FrameInputs :
        /\ u.newPhone = Phone2 /\ u.newPartySize = 4 /\ u.newTableIndex = 3
        /\ u.newName # reservations[1].customerName
        /\ LET o == update(IdLeadingZero, reservations[1].customerName, u, TRUE)
           IN  /\ o.err = ""
               /\ o.reservations[1].phoneNumber = Phone2
               /\ o.reservations[1].partySize = 4
               /\ o.reservations[2] = reservations[2]

\* The updates that supply the table alone, and the one that supplies nothing.
TableOnlyInputs ==
  {[NoChange EXCEPT !.newTableIndex = k] : k \in NewTableInputs \cup {-1}}

\* The tables whose availability flag after the call differs from the one
\* before it.
Flipped(o) == {t \in TableIndexes : o.tables[t] # tables[t]}

\* C13 as stated: an updateReservation call that returns normally and supplies
\* only a table index different from the reservation's own leaves exactly one
\* table's flag different from before the call, and none when the table
\* argument is the sentinel.
C13_OneTableFlipped ==
  \A reservationId \in IdInputs, customerName \in NameInputs,
     u \in TableOnlyInputs, logOk \in BOOLEAN :
     \A m \in 1..Len(reservations) :
        Addresses(m, reservationId, customerName)
        => LET o == update(reservationId, customerName, u, logOk)
           IN  o.err = ""
               => /\ u.newTableIndex = -1 => Flipped(o) = {}
                  /\ (/\ u.newTableIndex # -1
                      /\ u.newTableIndex # reservations[m].tableNumber)
                     => Cardinality(Flipped(o)) = 1

\* C13 amended: an updateReservation call that returns normally and supplies
\* only a table index different from the reservation's own leaves exactly two
\* tables' flags different from before the call, the old table now available
\* and the new one unavailable, with as many tables available as before; no
\* flag differs when the table argument is the sentinel or the reservation's
\* own table.
C13_OldFreedNewClaimed ==
  \A reservationId \in IdInputs, customerName \in NameInputs,
     u \in TableOnlyInputs, logOk \in BOOLEAN :
     \A m \in 1..Len(reservations) :
        Addresses(m, reservationId, customerName)
        => LET o == update(reservationId, customerName, u, logOk)
               old == reservations[m].tableNumber
               new == u.newTableIndex
           IN  o.err = ""
               => IF new = -1 \/ new = old
                  THEN Flipped(o) = {}
                  ELSE /\ Flipped(o) = {old, new}
                       /\ Cardinality(Flipped(o)) = 2
                       /\ o.tables[old]
                       /\ ~o.tables[new]
                       /\ AvailableCount(o.tables) = AvailableCount(tables)

\* The one reservation sits on table 3 and a table-only update moving it to
\* table 0 returns normally, freeing table 3 and occupying table 0.
C13_Witness ==
  /\ Len(reservations) = 1
  /\ reservations[1].tableNumber = 3
  /\ LET o == update(reservations[1].id, reservations[1].customerName,
                     [NoChange EXCEPT !.newTableIndex = 0], TRUE)
     IN  /\ o.err = ""
         /\ o.tables[3]
         /\ ~o.tables[0]
         /\ ~tables[3]
         /\ tables[0]

\* Updates that supply a new id: every id alone, and every id together with a
\* malformed phone and an out-of-range table.
RenameInputs ==
  {[NoChange EXCEPT !.newId = v] : v \in IdInputs}
  \cup {[NoChange EXCEPT !.newId = v, !.newPhone = PhoneNoDashes,
                         !.newTableIndex = NumTables] : v \in IdInputs}

\* C14: an updateReservation call whose newId is the id of a different active
\* reservation throws the Conflict error and changes nothing; a newId equal to
\* the reservation's own id is never a Conflict, and supplied alone it is
\* accepted and leaves the record as it was; and
\* reservationIdExists(newId, currentId) holds exactly when some active
\* reservation has the id newId and newId is not currentId.
C14_ConflictOnlyWithOtherId ==
  /\ \A reservationId \in IdInputs, customerName \in NameInputs,
        u \in RenameInputs, logOk \in BOOLEAN :
        \A m \in 1..Len(reservations) :
           Addresses(m, reservationId, customerName)
           => LET o == update(reservationId, customerName, u, logOk)
              IN  /\ (\E j \in 1..Len(reservations) :
                         j # m /\ reservations[j].id = u.newId)
                      => (o.err = Conflict /\ StoreUnchanged(o))
                  /\ u.newId = reservationId => o.err # Conflict
                  /\ (u = [NoChange EXCEPT !.newId = reservationId] /\ logOk)
                      => (o.err = "" /\ StoreUnchanged(o))
  /\ \A newId \in IdInputs, currentId \in IdInputs \cup {<<>>} :
        reservationIdExists(newId, currentId)
        <=> /\ \E i \in 1..Len(reservations) : reservations[i].id = newId
            /\ newId # currentId

\* Two reservations are active: renaming the first to the second's id is
\* refused as a Conflict, renaming it to its own id is accepted.
C14_Witness ==
  /\ Len(reservations) = 2
  /\ reservations[1].id # reservations[2].id
  /\ update(reservations[1].id, reservations[1].customerName,
            [NoChange EXCEPT !.newId = reservations[2].id], TRUE).err = Conflict
  /\ update(reservations[1].id, reservations[1].customerName,
            [NoChange EXCEPT !.newId = reservations[1].id], TRUE).err = ""
  /\ reservationIdExists(reservations[2].id, reservations[1].id)
  /\ ~reservationIdExists(reservations[1].id, reservations[1].id)

\* Updates in which any subset of the optional arguments is wrong at once: a
\* malformed or possibly taken id, a malformed phone, a negative party size, a
\* past date, an impossible time, an out-of-range or possibly taken table.
OrderInputs ==
  [newId : {Zero, IdNoDigits, MakeId(1), MakeId(2)}, newName : {"0"},
   newPhone : {Zero, PhoneNoDashes}, newPartySize : {0, -1},
   newDate : {Zero, Yesterday}, newTime : {Zero, Hour24},
   newTableIndex : {-1, NumTables, 0, 3}]

\* The update in which every optional argument is wrong.
AllWrong ==
  [newId |-> IdNoDigits, newName |-> "0", newPhone |-> PhoneNoDashes,
   newPartySize |-> -1, newDate |-> Yesterday, newTime |-> Hour24,
   newTableIndex |-> NumTables]

\* The checks of an updateReservation call in the order they are claimed to
\* be made, each with the message its violation is reported with.
OrderedChecks(reservationId, customerName, u) ==
  << [bad |-> ~validateReservationId(reservationId), msg |-> IdFormatError],
     [bad |-> ~Active(reservationId, customerName), msg |-> NotFoundUpdate],
     [bad |-> u.newId # Zero /\ ~validateReservationId(u.newId),
      msg |-> NewIdFormatError],
     [bad |-> /\ u.newId # Zero
              /\ u.newId # reservationId
              /\ \E i \in 1..Len(reservations) : reservations[i].id = u.newId,
      msg |-> Conflict],
     [bad |-> u.newPhone # Zero /\ ~validatePhoneNumber(u.newPhone),
      msg |-> PhoneError],
     [bad |-> u.newPartySize # 0 /\ ~validatePartySize(u.newPartySize),
      msg |-> PartySizeError],
     [bad |-> u.newDate # Zero /\ ~validateDate(u.newDate), msg |-> DateError],
     [bad |-> /\ u.newTime # Zero
              /\ ~validateTime(u.newTime,
                               IF u.newDate # Zero THEN u.newDate ELSE CURRENT_DATE),
      msg |-> TimeError],
     [bad |-> u.newTableIndex # -1 /\ u.newTableIndex \notin TableIndexes,
      msg |-> NewTableIndexError],
     [bad |-> /\ u.newTableIndex \in TableIndexes
              /\ \E j \in 1..Len(reservations) :
                    /\ reservations[j].tableNumber = u.newTableIndex
                    /\ ~(/\ reservations[j].id = reservationId
                         /\ reservations[j].customerName = customerName),
      msg |-> TableUnavailable] >>

\* The message of the first violated check, "" when none is violated.
FirstViolated(checks) ==
  LET bad == {i \in 1..Len(checks) : checks[i].bad}
  IN  IF bad = {} THEN ""
      ELSE checks[CHOOSE i \in bad : \A j \in bad : i <= j].msg

\* C15: updateReservation checks in the order (1) shape of the reservation id,
\* then existence of the (id, customer name) record, (2) shape of newId, then
\* its conflict with another active id, (3) newPhone, newPartySize, newDate,
\* newTime, (4) range of newTableIndex, then its availability; the error
\* thrown is that of the first violated check, and no check is violated when
\* the call gets as far as writing the store.
C15_FirstViolatedCheckReported ==
  \A reservationId \in IdInputs, customerName \in NameInputs :
     \A u \in (IF Active(reservationId, customerName)
               THEN OrderInputs ELSE {NoChange, AllWrong}) :
        LET o == update(reservationId, customerName, u, TRUE)
        IN  o.err = FirstViolated(OrderedChecks(reservationId, customerName, u))

\* Two reservations are active and an update of the first with every optional
\* argument wrong (the second's id and table, a malformed phone, a negative
\* party size, a past date, an impossible time) is refused as a Conflict, as a
\* phone error once the id is left alone, and as TableUnavailable once only
\* the table is supplied.
C15_Witness ==
  /\ Len(reservations) = 2
  /\ LET u == [newId |-> reservations[2].id, newName |-> "0",
               newPhone |-> PhoneNoDashes, newPartySize |-> -1,
               newDate |-> Yesterday, newTime |-> Hour24,
               newTableIndex |-> reservations[2].tableNumber]
         up(v) == update(reservations[1].id, reservations[1].customerName, v, TRUE)
     IN  /\ u \in OrderInputs
         /\ up(u).err = Conflict
         /\ up([u EXCEPT !.newId = Zero]).err = PhoneError
         /\ up([NoChange EXCEPT !.newTableIndex = u.newTableIndex]).err
              = TableUnavailable

TimeEarlierHour == <<"0","9",":","3","0">>
TimeLaterHour == <<"2","3",":","0","0">>
TimeMinute60 == <<"2","2",":","6","0">>
TimeNoColon == <<"2","2","-","2","0">>
TimeOneDigitHour == <<"9",":","3","0">>

\* Times before, at and after the reference time, and malformed ones.
TimeProbes ==
  {TimeAtReference, TimeAfterReference, Hour24, TimeEarlierHour, TimeLaterHour,
   TimeMinute60, TimeNoColon, TimeOneDigitHour}

\* The text is two digits, a colon and two digits, the hour at most 23 and the
\* minute at most 59.
WellFormedTime(time) ==
  /\ Len(time) = 5
  /\ time[3] = ":"
  /\ \A i \in {1, 2, 4, 5} : time[i] \in Digits
  /\ 10 * DigitVal(time[1]) + DigitVal(time[2]) <= 23
  /\ 10 * DigitVal(time[4]) + DigitVal(time[5]) <= 59

\* C16: in updateReservation a supplied newTime is validated against newDate
\* when a (valid) newDate is supplied and against the reference date
\* otherwise, whatever date the record stores: a time-only update is accepted
\* exactly when the time is well-formed and strictly later than the reference
\* time, and then the record takes that time.
C16_TimeCheckedAgainstNewOrReferenceDate ==
  \A reservationId \in IdInputs, customerName \in NameInputs,
     newDate \in {Zero, CURRENT_DATE, Tomorrow}, newTime \in TimeProbes :
     \A m \in 1..Len(reservations) :
        Addresses(m, reservationId, customerName)
        => LET u == [NoChange EXCEPT !.newDate = newDate, !.newTime = newTime]
               o == update(reservationId, customerName, u, TRUE)
               against == IF newDate # Zero THEN newDate ELSE CURRENT_DATE
               ok == /\ WellFormedTime(newTime)
                     /\ against = CURRENT_DATE => AfterReferenceTime(newTime)
           IN  /\ o.err = (IF ok THEN "" ELSE TimeError)
               /\ ok => o.reservations[m].time = newTime
               /\ ~ok => StoreUnchanged(o)

\* A reservation is stored for tomorrow at 22:19; a time-only update to 09:30,
\* valid for the stored date, is refused, and one to 22:20 is accepted.
C16_Witness ==
  /\ Len(reservations) = 1
  /\ reservations[1].date = Tomorrow
  /\ reservations[1].time = TimeAtReference
  /\ update(reservations[1].id, reservations[1].customerName,
            [NoChange EXCEPT !.newTime = TimeEarlierHour], TRUE).err = TimeError
  /\ update(reservations[1].id, reservations[1].customerName,
            [NoChange EXCEPT !.newTime = TimeAfterReference], TRUE).err = ""
  /\ validateTime(TimeEarlierHour, reservations[1].date)

\* C17: a reserveTable call that returns normally gives the new record the id
\* 'ID <k>A' where k is the smallest number not below the id counter whose id
\* no active reservation has (numbers taken by a manual rename are skipped),
\* and leaves the counter at k + 1; the retry loop ends after at most as many
\* retries as there are active reservations.
C17_FreshIdIsSmallestFree ==
  \A a \in ReserveInputs, logOk \in BOOLEAN :
     LET o == reserve(a, logOk)
         k == o.nextReservationId - 1
     IN  o.err = ""
         => /\ o.reservations[Len(reservations) + 1].id = MakeId(k)
            /\ k >= nextReservationId
            /\ k <= nextReservationId + Len(reservations)
            /\ \A i \in 1..Len(reservations) : reservations[i].id # MakeId(k)
            /\ \A j \in nextReservationId..(k - 1) :
                  \E i \in 1..Len(reservations) : reservations[i].id = MakeId(j)

\* The first reservation was renamed to "ID 2A" while the counter stood at 2,
\* and the reservation made after it skipped 2: it is "ID 3A" and the counter
\* is 4.
C17_Witness ==
  /\ Len(reservations) = 2
  /\ reservations[1].id = MakeId(2)
  /\ reservations[2].id = MakeId(3)
  /\ nextReservationId = 4

\* C18: whether reserveTable, cancelReservation or updateReservation returns
\* normally or throws does not depend on whether the log write succeeds: the
\* same call on the same store reports the same with the log file writable
\* and with it not writable.
C18_ReportIndependentOfLogWrite ==
  /\ \A a \in ReserveInputs : reserve(a, TRUE).err = reserve(a, FALSE).err
  /\ \A reservationId \in IdInputs, customerName \in NameInputs :
        /\ cancelReservation(reservationId, customerName, TRUE).err
             = cancelReservation(reservationId, customerName, FALSE).err
        /\ \A u \in UpdateInputs :
              update(reservationId, customerName, u, TRUE).err
                = update(reservationId, customerName, u, FALSE).err

\* C20: validateTime(time, date) returns true exactly for the texts HH:MM
\* with hour 0..23 and minute 0..59 that, when date is the reference date, are
\* strictly later than the reference time (a time equal to it is rejected);
\* for every other date argument each well-formed time is accepted.
C20_ValidateTimeExact ==
  (call.fn = "validateTime" /\ verdict # <<>>)
  => LET hour   == 10 * DigitVal(call.time[1]) + DigitVal(call.time[2])
         minute == 10 * DigitVal(call.time[4]) + DigitVal(call.time[5])
     IN  verdict[1]
         <=> /\ WellFormedTime(call.time)
             /\ call.date = CURRENT_DATE
                => \/ hour > CURRENT_HOUR
                   \/ (hour = CURRENT_HOUR /\ minute > CURRENT_MINUTE)

\* validateTime has rejected the reference time 22:19 for the reference date.
C20_Witness ==
  /\ call = [fn |-> "validateTime", time |-> TimeAtReference, date |-> CURRENT_DATE]
  /\ verdict = <<FALSE>>

\* C19: no failure ends the process: main is never left by an exception,
\* whatever fails during a login, a reserve, an update or a cancel, the log
\* write included; the program ends only by the Exit choice of role selection.
C19_NoFailureFatal == pc # "Terminated"

\* The number a run of digit characters denotes.
RECURSIVE Decimal(_)
Decimal(s) ==
  IF s = <<>> THEN 0 ELSE 10 * Decimal(SubSeq(s, 1, Len(s) - 1)) + DigitVal(s[Len(s)])

\* C21: validateDate(date) returns true exactly for the texts YYYY-MM-DD with
\* month 1..12 and day 1..31 that are not earlier than the reference date
\* 2025-05-19 (for texts of this shape the lexicographic order is the order of
\* year, month, day); the day is not compared with the length of the month,
\* so 31 is accepted for February of a later year.
C21_ValidateDateExact ==
  (call.fn = "validateDate" /\ verdict # <<>>)
  => LET d == call.date
         shaped == /\ Len(d) = 10
                   /\ d[5] = "-" /\ d[8] = "-"
                   /\ \A i \in {1, 2, 3, 4, 6, 7, 9, 10} : d[i] \in Digits
         year  == Decimal(SubSeq(d, 1, 4))
         month == Decimal(SubSeq(d, 6, 7))
         day   == Decimal(SubSeq(d, 9, 10))
     IN  verdict[1]
         <=> /\ shaped
             /\ month \in 1..12
             /\ day \in 1..31
             /\ 10000 * year + 100 * month + day >= 20250519

\* validateDate has accepted 2026-02-31.
C21_Witness ==
  /\ call = [fn |-> "validateDate",
             date |-> <<"2","0","2","6","-","0","2","-","3","1">>]
  /\ verdict = <<TRUE>>

\* The store and the log are as before a read-only operation that returned o,
\* and it returned normally.
Untouched(o) ==
  /\ o.err = ""
  /\ o.tables = tables
  /\ o.reservations = reservations
  /\ o.nextReservationId = nextReservationId
  /\ o.log = log

\* Names and ids that are asked about, some of them unknown to the store.
LookupNames == NameInputs \cup {"carol", ""}
LookupIds == IdInputs \cup {Zero, <<>>}

\* C22: viewTableAvailability, viewCustomerReservations, viewLogs,
\* hasReservations and reservationIdExists always return normally, and after
\* any of them the table pool, the reservation list, the id counter and the
\* log are what they were before; the two lookups only yield a truth value.
C22_ViewsChangeNothing ==
  /\ Untouched(viewTableAvailability)
  /\ \A customerName \in LookupNames :
        /\ Untouched(viewCustomerReservations(customerName))
        /\ hasReservations(customerName) \in BOOLEAN
  /\ \A logReadable \in BOOLEAN : Untouched(viewLogs(logReadable))
  /\ \A id \in LookupIds, excludeId \in LookupIds :
        reservationIdExists(id, excludeId) \in BOOLEAN

\* A customer who holds a reservation is at the menu that offers the views,
\* with lines in the log and a booked table.
C22_Witness ==
  /\ pc = "CustomerMenu"
  /\ hasReservations(username)
  /\ log # <<>>
  /\ \E t \in 0..(NumTables - 1) : ~tables[t]

\* C23: viewCustomerReservations(c) lists exactly the active reservations made
\* under c, each once with its stored id, phone, party size, date and time and
\* its table counted from 1; in particular a reservation on table index 3 is
\* listed with table 4.
C23_ListsOwnReservationsOneBased ==
  \A c \in LookupNames :
     LET rows == viewCustomerReservations(c).out.rows
         own  == {i \in 1..Len(reservations) : reservations[i].customerName = c}
     IN  /\ Len(rows) = Cardinality(own)
         /\ \A i \in own :
               \E k \in 1..Len(rows) :
                  /\ rows[k].id = reservations[i].id
                  /\ rows[k].name = c
                  /\ rows[k].contact = reservations[i].phoneNumber
                  /\ rows[k].partySize = reservations[i].partySize
                  /\ rows[k].date = reservations[i].date
                  /\ rows[k].time = reservations[i].time
                  /\ rows[k].table = reservations[i].tableNumber + 1
                  /\ (reservations[i].tableNumber = 3 => rows[k].table = 4)
         /\ \A k \in 1..Len(rows) :
               \E i \in own : rows[k].id = reservations[i].id

\* reserveTable has just succeeded for the logged-in customer on table index
\* 3 while another customer holds a reservation too.
C23_Witness ==
  /\ pc = "CustomerMenu"
  /\ reservations # <<>>
  /\ reservations[Len(reservations)].customerName = username
  /\ reservations[Len(reservations)].tableNumber = 3
  /\ log # <<>>
  /\ log[Len(log)] = reserveTableLogLine(username, 2, Tomorrow, TimeAfterReference, 3)
  /\ \E i \in 1..Len(reservations) : reservations[i].customerName # username

\* Whether the sequence s is the beginning of the sequence t.
IsPrefix(s, t) == Len(s) <= Len(t) /\ SubSeq(t, 1, Len(s)) = s

\* C24: the log only grows at its end: in every step the log before the step
\* is a prefix of the log after it, hence the log at any earlier point is a
\* prefix of the log at any later point; and viewLogs, reading the file, shows
\* all its lines in the order they were written (and no line at all, with the
\* message "Unable to open log file.", when the file cannot be read).
C24_LogAppendOnly ==
  [][/\ IsPrefix(log, log')
     /\ viewLogs(TRUE).out.lines = log
     /\ viewLogs(FALSE).out = [lines |-> <<>>, message |-> LogFileError]]_vars

\* An admin, who can view the log, is logged in after a customer has written
\* an action line and an error line.
C24_Witness ==
  /\ pc = "AdminMenu"
  /\ Len(log) >= 3
  /\ log[Len(log)] = logLogin("Admin", adminUsername)
  /\ \E i \in 1..Len(log) : log[i].error # ""
  /\ \E i \in 1..Len(log) : log[i].action = "Reserved table"

\* C25: every log line written for a login or for a reserve, update or cancel
\* action carries the role and the username of the user who is logged in when
\* it is written, whether customer, receptionist or admin.
C25_LinesTaggedWithActor ==
  [][Len(log') > Len(log) =>
       /\ log'[Len(log')].role = role'
       /\ log'[Len(log')].username = username']_vars

\* The request that returned o left exactly one more line in the log after:
\* an action line when o is a success, an error line when it is a failure.
LoggedOnce(o, after) ==
  /\ Len(after) = Len(log) + 1
  /\ (after[Len(after)].error = "") = (o.err = "")

\* C26: every reserve, update or cancel request issued from the customer or
\* the admin menu leaves one more line in the log: an action line when the
\* store operation succeeded and an error line when it failed.
C26_EveryRequestLogged ==
  /\ pc = "AdminMenu" =>
       \A customerName \in NameInputs, reservationId \in IdInputs, logOk \in BOOLEAN :
          hasReservations(customerName) =>
             /\ LET o == cancelReservation(reservationId, customerName, logOk)
                IN  LoggedOnce(o, AdminRequested(o,
                       cancelReservationLogLine(reservationId, customerName)).log)
             /\ \A u \in MenuUpdateInputs :
                   ~AdminUpdatePromptRejects(reservationId, u) =>
                      LET o == updateReservation(reservationId, customerName, u.newId,
                                  u.newName, u.newPhone, u.newPartySize, u.newDate,
                                  u.newTime, NewTableIndex(u), logOk)
                      IN  LoggedOnce(o, AdminRequested(o,
                             updateReservationLogLine(reservationId, customerName)).log)
  /\ pc = "CustomerMenu" =>
       \A logOk \in BOOLEAN, errLogOk \in BOOLEAN :
          /\ \A a \in MenuReserveInputs :
                ReservePromptError(a) = "" =>
                   LET o == reserveTable(username, a.phoneNumber, a.partySize, a.date,
                                         a.time, a.tableInput - 1, logOk)
                   IN  LoggedOnce(o, CustomerRequested(o, "Failed to reserve table",
                          reserveTableLogLine(username, a.partySize, a.date, a.time,
                                              a.tableInput - 1), errLogOk).log)
          /\ \A reservationId \in IdInputs :
                hasReservations(username) =>
                   /\ LET o == cancelReservation(reservationId, username, logOk)
                      IN  LoggedOnce(o, CustomerRequested(o, "Failed to cancel reservation",
                             cancelReservationLogLine(reservationId, username), errLogOk).log)
                   /\ \A u \in MenuUpdateInputs :
                         UpdatePromptError(reservationId, u) = "" =>
                            LET o == updateReservation(reservationId, username, u.newId,
                                        u.newName, u.newPhone, u.newPartySize, u.newDate,
                                        u.newTime, NewTableIndex(u), logOk)
                            IN  LoggedOnce(o, CustomerRequested(o,
                                   "Failed to update reservation",
                                   updateReservationLogLine(reservationId, username),
                                   errLogOk).log)

\* Passwords that are tried against the accounts, among them the stored ones.
PasswordProbes == PasswordInputs \cup AccountPasswordInputs \cup {"pw2", ""}

\* Usernames that are tried, among them the admin's and names of both kinds
\* of account.
UsernameProbes == NameInputs \cup ReceptionistUsernameInputs \cup {adminUsername, "carol"}

\* C27: accounts are inserted only when absent, in two separate maps. Creating
\* an account under a username that exists in the same map leaves the map, and
\* so the stored password, as it is; no step changes or removes a stored
\* password, and no step changes both maps; a receptionist login is accepted
\* exactly when the username is a key of receptionistAccounts with the typed
\* password as its value, and a customer login exactly when it is a key of
\* customerAccounts with the typed password as its value, whatever the other
\* map holds.
C27_AccountsInsertIfAbsentPerKind ==
  [][/\ \A name \in UsernameProbes, password \in PasswordProbes :
           /\ name \in DOMAIN customerAccounts =>
                 AccountCreated(customerAccounts, name, password) = customerAccounts
           /\ name \in DOMAIN receptionistAccounts =>
                 AccountCreated(receptionistAccounts, name, password) = receptionistAccounts
           /\ receptionistLoginAccepted(name, password)
                 = (/\ name \in DOMAIN receptionistAccounts
                    /\ receptionistAccounts[name] = password)
           /\ customerLoginAccepted(name, password)
                 = (/\ name \in DOMAIN customerAccounts
                    /\ customerAccounts[name] = password)
     /\ \A name \in DOMAIN customerAccounts :
           name \in DOMAIN customerAccounts' /\ customerAccounts'[name] = customerAccounts[name]
     /\ \A name \in DOMAIN receptionistAccounts :
           /\ name \in DOMAIN receptionistAccounts'
           /\ receptionistAccounts'[name] = receptionistAccounts[name]
     /\ customerAccounts' # customerAccounts =>
           pc = "CustomerCreate" /\ receptionistAccounts' = receptionistAccounts
     /\ receptionistAccounts' # receptionistAccounts =>
           pc = "AdminMenu" /\ customerAccounts' = customerAccounts
     /\ pc = "ReceptionistLogin" /\ pc' = "ReceptionistMenu" =>
           username' \in DOMAIN receptionistAccounts
     /\ pc = "CustomerLogin" /\ pc' = "CustomerMenu" =>
           username' \in DOMAIN customerAccounts]_vars

\* A customer has logged in at the login prompt while the same username is
\* not a receptionist's, and a receptionist account exists under a username
\* that is not a customer's.
C27_Witness ==
  /\ pc = "CustomerMenu"
  /\ username \in DOMAIN customerAccounts
  /\ username \notin DOMAIN receptionistAccounts
  /\ \E name \in DOMAIN receptionistAccounts : name \notin DOMAIN customerAccounts
  /\ Len(log) >= 3
  /\ log[Len(log)] = logLogin("Customer", username)
  /\ log[Len(log) - 1].role = "Admin"

\* Every record of the list is, at its position, still in the list that the
\* outcome o leaves, except that the record at position m (0 for none) may
\* have got new fields; and every record left has its table booked.
StillActive(o, m) ==
  /\ Len(o.reservations) >= Len(reservations)
  /\ \A i \in 1..Len(reservations) : i # m => o.reservations[i] = reservations[i]
  /\ \A i \in 1..Len(o.reservations) : ~o.tables[o.reservations[i].tableNumber]

\* C28: an active reservation stays in the list with its table booked until
\* it is cancelled: reserveTable and updateReservation remove no record, and
\* cancelReservation removes a record only when it succeeds, and then only the
\* one that has both the id and the customer name it was given.
C28_OnlySuccessfulCancelRemoves ==
  /\ \A a \in ReserveInputs, logOk \in BOOLEAN : StillActive(reserve(a, logOk), 0)
  /\ \A reservationId \in IdInputs, customerName \in NameInputs, logOk \in BOOLEAN :
        /\ \A u \in {NoChange} \cup {[NoChange EXCEPT !.newName = v] : v \in NameInputs}
                    \cup {[NoChange EXCEPT !.newTableIndex = k] : k \in NewTableInputs} :
              LET o == update(reservationId, customerName, u, logOk)
              IN  /\ Len(o.reservations) = Len(reservations)
                  /\ \E m \in 0..Len(reservations) : StillActive(o, m)
        /\ LET o == cancelReservation(reservationId, customerName, logOk)
           IN  \/ o.err # "" /\ StillActive(o, 0)
               \/ /\ o.err = ""
                  /\ \E m \in 1..Len(reservations) :
                        /\ reservations[m].id = reservationId
                        /\ reservations[m].customerName = customerName
                        /\ o.reservations = Without(reservations, m)
                        /\ \A i \in 1..Len(o.reservations) :
                              ~o.tables[o.reservations[i].tableNumber]

\* C29: after any sequence of store operations every active reservation holds
\* valid fields: an id of the shape "ID <digits>A" with at least one digit,
\* whether generated or given by an update, a phone of the shape DDD-DDD-DDDD,
\* a party size of at least 1 and a table index in 0..NumTables-1.
C29_ActiveRecordsValid ==
  \A i \in 1..Len(reservations) :
     LET res == reservations[i]
     IN  /\ Len(res.id) >= 5
         /\ SubSeq(res.id, 1, 3) = <<"I", "D", " ">>
         /\ res.id[Len(res.id)] = "A"
         /\ \A k \in 4..(Len(res.id) - 1) : res.id[k] \in Digits
         /\ Len(res.phoneNumber) = 12
         /\ res.phoneNumber[4] = "-" /\ res.phoneNumber[8] = "-"
         /\ \A k \in (1..12) \ {4, 8} : res.phoneNumber[k] \in Digits
         /\ res.partySize >= 1
         /\ res.tableNumber \in 0..(NumTables - 1)

\* A reservation whose id was given by an update is active beside one that
\* keeps its generated id.
C29_Witness ==
  /\ Len(reservations) >= 2
  /\ \E i \in 1..Len(reservations) : reservations[i].id = IdLeadingZero
  /\ \E i \in 1..Len(reservations) :
        \E k \in 1..MaxId : k < nextReservationId /\ reservations[i].id = MakeId(k)

\* The reservations that are not under the logged-in username are in the
\* list rs as they are in the store, with their table booked in t.
OthersKept(rs, t) ==
  \A i \in 1..Len(reservations) :
     reservations[i].customerName # username =>
        \E j \in 1..Len(rs) : rs[j] = reservations[i] /\ ~t[reservations[i].tableNumber]

\* C30: in a customer session the reserve, update and cancel requests carry
\* the logged-in username as customerName: every line such a step writes is
\* under that username, a record added is under it, and every reservation
\* whose customerName differs from the username is after the step what it was
\* before, with its table booked; and whatever id the customer types at the
\* update or cancel prompt, that of another customer's reservation included,
\* the request leaves those reservations as they are.
C30_CustomerTouchesOwnOnly ==
  [][pc = "CustomerMenu" =>
       /\ OthersKept(reservations', tables')
       /\ Len(reservations') > Len(reservations) =>
             reservations'[Len(reservations')].customerName = username
       /\ Len(log') > Len(log) =>
             log'[Len(log')].role = "Customer" /\ log'[Len(log')].username = username
       /\ \A reservationId \in IdInputs, logOk \in BOOLEAN :
             /\ LET o == cancelReservation(reservationId, username, logOk)
                IN  OthersKept(o.reservations, o.tables)
             /\ \A u \in MenuUpdateInputs :
                   LET o == updateReservation(reservationId, username, u.newId,
                               u.newName, u.newPhone, u.newPartySize, u.newDate,
                               u.newTime, NewTableIndex(u), logOk)
                   IN  OthersKept(o.reservations, o.tables)]_vars

\* A customer who holds a reservation has just made a request while another
\* customer's reservation, whose id is among those typed, is active.
C30_Witness ==
  /\ pc = "CustomerMenu"
  /\ hasReservations(username)
  /\ \E i \in 1..Len(reservations) :
        reservations[i].customerName # username /\ reservations[i].id \in IdInputs
  /\ log # <<>>
  /\ log[Len(log)].username = username
  /\ log[Len(log)].action = "Reserved table"

\* C31: the menus are gated by role. A step taken from the receptionist menu
\* leaves the table pool, the reservation list and the id counter as they
\* are; a step that adds a reservation is taken from the customer menu by a
\* logged-in customer; a step that changes the table pool or the reservation
\* list in any way is taken from the customer or the admin menu by a user of
\* that role.
C31_MenusRoleGated ==
  [][/\ (pc = "ReceptionistMenu" \/ role = "Receptionist") =>
           /\ tables' = tables
           /\ reservations' = reservations
           /\ nextReservationId' = nextReservationId
     /\ Len(reservations') > Len(reservations) =>
           pc = "CustomerMenu" /\ role = "Customer"
     /\ (tables' # tables \/ reservations' # reservations) =>
           \/ pc = "CustomerMenu" /\ role = "Customer"
           \/ pc = "AdminMenu" /\ role = "Admin"]_vars

\* A receptionist is logged in while a customer's reservation is active and
\* its table booked.
C31_Witness ==
  /\ pc = "ReceptionistMenu"
  /\ role = "Receptionist"
  /\ reservations # <<>>
  /\ \E t \in 0..(NumTables - 1) : ~tables[t]
  /\ log[Len(log)] = logLogin("Receptionist", username)

\* C32: the id counter never decreases: no call of the three operations
\* leaves it lower; a reserveTable call that fails leaves it as it is; and a
\* reserveTable call that succeeds gives the new reservation an id "ID <k>A"
\* whose number k is at least the counter before the call and below the
\* counter after it, so that k is above every number issued before and below
\* every number issued later, whatever has been cancelled in between.
C32_CounterOnlyAdvancesOnSuccess ==
  /\ \A a \in ReserveInputs, logOk \in BOOLEAN :
        LET o == reserve(a, logOk)
        IN  /\ o.nextReservationId >= nextReservationId
            /\ o.err # "" => o.nextReservationId = nextReservationId
            /\ o.err = "" =>
                  \E k \in nextReservationId..(o.nextReservationId - 1) :
                     o.reservations[Len(o.reservations)].id = MakeId(k)
  /\ \A reservationId \in IdInputs, customerName \in NameInputs, logOk \in BOOLEAN :
        /\ cancelReservation(reservationId, customerName, logOk).nextReservationId
              >= nextReservationId
        /\ \A u \in UpdateInputs :
              update(reservationId, customerName, u, logOk).nextReservationId
                 >= nextReservationId

\* C33: no prompt of the session loop traps the user: wherever main() stands,
\* some input is accepted and leads on towards role selection. At the admin
\* login the fixed credentials are accepted; at the receptionist and the
\* customer login some username and password are accepted; at the account
\* prompt some username is free; at the prompts of the customer's requests
\* some phone, party size, date, time, table and id are accepted.
C33_NoPromptTraps ==
  /\ pc = "AdminLogin" =>
        \E name \in UsernameProbes, password \in PasswordProbes :
           name = adminUsername /\ password = adminPassword
  /\ pc = "ReceptionistLogin" =>
        \E name \in UsernameProbes, password \in PasswordProbes :
           receptionistLoginAccepted(name, password)
  /\ pc = "CustomerLogin" =>
        \E name \in UsernameProbes, password \in PasswordProbes :
           customerLoginAccepted(name, password)
  /\ pc = "CustomerCreate" =>
        \E name \in UsernameProbes : name \notin DOMAIN customerAccounts
  /\ pc = "AdminMenu" =>
        \E name \in UsernameProbes : name \notin DOMAIN receptionistAccounts
  /\ pc = "CustomerMenu" =>
        /\ \E a \in MenuReserveInputs : ReservePromptError(a) = ""
        /\ hasReservations(username) =>
              \E reservationId \in IdInputs, u \in MenuUpdateInputs :
                 UpdatePromptError(reservationId, u) = ""

====
